---- MODULE Spec2Model ----
(***************************************************************************)
(* A model of the cal program: the date arithmetic of CalContext           *)
(* (src/src/calendar.rs), the month grid builder MonthData::new, the day   *)
(* cell highlighting of format_day and the process-wide holiday cache with *)
(* its plugin handle (src/src/formatter.rs, src/src/plugin_api.rs).        *)
(***************************************************************************)
EXTENDS Integers, Sequences, FiniteSets, TLC

VARIABLES
    ctx,            \* the CalContext of the process
    year,           \* target year of the calendar call
    month,          \* target month of the calendar call
    call,           \* the calendar operation applied to (ctx, year, month) and its result
    PLUGIN,         \* static PLUGIN: Mutex<Option<PluginHandle>>, the value
    COUNTRY,        \* static COUNTRY: Mutex<Option<String>>, the value
    HOLIDAY_CACHE,  \* static HOLIDAY_CACHE: Mutex<Option<(i32, u32, String)>>, the value
    lock,           \* the owner of each of the three mutexes (0: unlocked)
    CACHE,          \* the plugin's static CACHE: HashMap<(i32, u32, String), String>
    service,        \* the holiday service as the plugin's requests find it
    th,             \* each thread's position in its holiday operation, with its locals
    args,           \* the parsed command line (struct Args)
    proc,           \* the process running main: position, results, stdout, stderr, exit status
    locale          \* the locale name the environment gives (LC_ALL > LC_TIME > LANG)

calVars == <<year, month, call>>
plugVars == <<CACHE, service>>
holVars == <<PLUGIN, COUNTRY, HOLIDAY_CACHE, lock, th, plugVars>>
mainVars == <<args, proc, locale>>
vars == <<ctx, calVars, holVars, mainVars>>

(***************************************************************************)
(* Bounds of the model.                                                    *)
(***************************************************************************)
\* Years are taken in windows of this radius around the anchor years.
YearRadius == 1

\* Years at which the leap rules, the reform and the spec's examples differ.
AnchorYears == {2, 100, 400, 1700, 1752, 1900, 2000, 2024, 9998}

Years == {y \in 1..9999 : \E a \in AnchorYears : y - a <= YearRadius /\ a - y <= YearRadius}

Months == 1..12

(***************************************************************************)
(* Constants of src/src/types.rs.                                          *)
(***************************************************************************)
I32_MAX == 2147483647
I32_MIN == (-I32_MAX) - 1

CELLS_PER_MONTH == 42
REFORM_YEAR_GB == 1752
REFORM_MONTH == 9
REFORM_FIRST_DAY == 3
REFORM_LAST_DAY == 13

\* ReformType::reform_year
reform_year(reform) ==
    CASE reform \in {"Gregorian", "Iso"} -> I32_MIN
      [] reform = "Julian" -> I32_MAX
      [] reform = "Year1752" -> REFORM_YEAR_GB

\* Option<T>: None is the empty tuple, Some(x) the one-element tuple.
None == <<>>
Some(x) == <<x>>

(***************************************************************************)
(* chrono::Weekday.                                                        *)
(***************************************************************************)
WeekdaySeq == <<"Mon", "Tue", "Wed", "Thu", "Fri", "Sat", "Sun">>
Weekday == {WeekdaySeq[i] : i \in 1..7}

num_days_from_monday(w) == (CHOOSE i \in 1..7 : WeekdaySeq[i] = w) - 1
num_days_from_sunday(w) == (num_days_from_monday(w) + 1) % 7
succ(w) == WeekdaySeq[((num_days_from_monday(w) + 1) % 7) + 1]

(***************************************************************************)
(* CalContext: the date arithmetic (src/src/calendar.rs).                  *)
(***************************************************************************)
\* is_leap_year with the 400-year exception of the Gregorian rule left out.
is_leap_year_no_400(c, y) ==
    IF y < c.reform_year
    THEN y % 4 = 0
    ELSE y % 4 = 0 /\ y % 100 # 0

is_leap_year(c, y) ==
    IF y < c.reform_year
    THEN y % 4 = 0
    ELSE (y % 4 = 0 /\ y % 100 # 0) \/ (y % 400 = 0)

days_in_month(c, y, m) ==
    CASE m \in {1, 3, 5, 7, 8, 10, 12} -> 31
      [] m \in {4, 6, 9, 11} -> 30
      [] m = 2 /\ is_leap_year(c, y) -> 29
      [] m = 2 /\ ~is_leap_year(c, y) -> 28
      [] OTHER -> 30

\* is_reform_gap without the test of the context's reform year.
is_reform_gap_any_context(c, y, m, d) ==
    y = REFORM_YEAR_GB /\ m = REFORM_MONTH /\ d \in REFORM_FIRST_DAY..REFORM_LAST_DAY

is_reform_gap(c, y, m, d) ==
    IF c.reform_year # REFORM_YEAR_GB
    THEN FALSE
    ELSE y = REFORM_YEAR_GB /\ m = REFORM_MONTH /\ d \in REFORM_FIRST_DAY..REFORM_LAST_DAY

\* h: 0=Sat, 1=Sun, 2=Mon, 3=Tue, 4=Wed, 5=Thu, 6=Fri
ZellerWeekday(h) ==
    CASE h = 0 -> "Sat" [] h = 1 -> "Sun" [] h = 2 -> "Mon" [] h = 3 -> "Tue"
      [] h = 4 -> "Wed" [] h = 5 -> "Thu" [] h = 6 -> "Fri"

\* first_day_of_month without the shift of January and February into the
\* previous year.
first_day_of_month_no_year_shift(c, y, mo) ==
    LET m == IF mo < 3 THEN mo + 12 ELSE mo
        q == 1
        k == y % 100
        j == y \div 100
        h == IF y < c.reform_year
             THEN (q + ((13 * (m + 1)) \div 5) + k + (k \div 4) + 5) % 7
             ELSE (q + ((13 * (m + 1)) \div 5) + k + (k \div 4) + (j \div 4) - 2 * j) % 7
    IN ZellerWeekday(h)

\* Zeller's congruence; the operands of / and % are never negative here, and
\* rem_euclid(7) is the mathematical modulus.
first_day_of_month(c, y, mo) ==
    LET m == IF mo < 3 THEN mo + 12 ELSE mo
        q == 1
        year_i == IF mo < 3 THEN y - 1 ELSE y
        k == year_i % 100
        j == year_i \div 100
        h == IF y < c.reform_year
             THEN (q + ((13 * (m + 1)) \div 5) + k + (k \div 4) + 5) % 7
             ELSE (q + ((13 * (m + 1)) \div 5) + k + (k \div 4) + (j \div 4) - 2 * j) % 7
    IN ZellerWeekday(h)

DAYS_BEFORE_MONTH == <<0, 31, 59, 90, 120, 151, 181, 212, 243, 273, 304, 334>>

\* u32::saturating_sub
saturating_sub(a, b) == IF a >= b THEN a - b ELSE 0

\* day_of_year with the leap day added from February on instead of after it.
day_of_year_leap_from_february(c, y, m, d) ==
    LET doy0 == DAYS_BEFORE_MONTH[m] + d
        doy1 == IF m >= 2 /\ is_leap_year(c, y) THEN doy0 + 1 ELSE doy0
    IN IF y = REFORM_YEAR_GB /\ m >= REFORM_MONTH
       THEN saturating_sub(doy1, REFORM_LAST_DAY - REFORM_FIRST_DAY + 1)
       ELSE doy1

day_of_year(c, y, m, d) ==
    LET doy0 == DAYS_BEFORE_MONTH[m] + d
        doy1 == IF m > 2 /\ is_leap_year(c, y) THEN doy0 + 1 ELSE doy0
    IN IF y = REFORM_YEAR_GB /\ m >= REFORM_MONTH
       THEN saturating_sub(doy1, REFORM_LAST_DAY - REFORM_FIRST_DAY + 1)
       ELSE doy1

is_weekend(w) == w \in {"Sat", "Sun"}

(***************************************************************************)
(* chrono::NaiveDate, the proleptic Gregorian calendar the program calls.  *)
(***************************************************************************)
GregorianLeap(y) == (y % 4 = 0 /\ y % 100 # 0) \/ (y % 400 = 0)

GregorianDaysInMonth(y, m) ==
    CASE m \in {1, 3, 5, 7, 8, 10, 12} -> 31
      [] m \in {4, 6, 9, 11} -> 30
      [] OTHER -> IF GregorianLeap(y) THEN 29 ELSE 28

\* NaiveDate::from_ymd_opt: None when the date does not exist.
from_ymd_opt(y, m, d) ==
    IF m \in 1..12 /\ d >= 1 /\ d <= GregorianDaysInMonth(y, m)
    THEN Some([y |-> y, m |-> m, d |-> d])
    ELSE None

\* Datelike::ordinal: the day of the year, from 1.
ordinal(date) ==
    DAYS_BEFORE_MONTH[date.m] + date.d
        + (IF date.m > 2 /\ GregorianLeap(date.y) THEN 1 ELSE 0)

\* Days from 0001-01-01 (a Monday) to the date, by counting whole years.
DaysFromCE(date) ==
    LET p == date.y - 1
    IN 365 * p + (p \div 4) - (p \div 100) + (p \div 400) + ordinal(date) - 1

\* Datelike::weekday
weekday(date) == WeekdaySeq[(DaysFromCE(date) % 7) + 1]

\* Number of ISO weeks of a year: 53 when it holds 53 Thursdays.
IsoWeeksInYear(y) ==
    LET jan1 == weekday([y |-> y, m |-> 1, d |-> 1])
    IN IF jan1 = "Thu" \/ (jan1 = "Wed" /\ GregorianLeap(y)) THEN 53 ELSE 52

\* Datelike::iso_week().week()
iso_week(date) ==
    LET w == (ordinal(date) - (num_days_from_monday(weekday(date)) + 1) + 10) \div 7
    IN IF w < 1 THEN IsoWeeksInYear(date.y - 1)
       ELSE IF w > IsoWeeksInYear(date.y) THEN 1
       ELSE w

\* week_number unwraps from_ymd_opt: it panics when the date does not exist.
week_number_panics(c, y, m, d) == from_ymd_opt(y, m, d) = None

\* week_number with the US weeks counted from Monday instead of Sunday.
week_number_us_from_monday(c, y, m, d) ==
    LET date == from_ymd_opt(y, m, d)[1]
        jan1 == from_ymd_opt(y, 1, 1)[1]
    IN IF c.week_type = "Iso"
       THEN iso_week(date)
       ELSE LET days_since_jan1 == DaysFromCE(date) - DaysFromCE(jan1)
                jan1_weekday == num_days_from_monday(weekday(jan1))
            IN ((days_since_jan1 + jan1_weekday) \div 7) + 1

week_number(c, y, m, d) ==
    LET date == from_ymd_opt(y, m, d)[1]
        jan1 == from_ymd_opt(y, 1, 1)[1]
    IN IF c.week_type = "Iso"
       THEN iso_week(date)
       ELSE LET days_since_jan1 == DaysFromCE(date) - DaysFromCE(jan1)
                jan1_weekday == num_days_from_sunday(weekday(jan1))
            IN ((days_since_jan1 + jan1_weekday) \div 7) + 1

(***************************************************************************)
(* MonthData::new (src/src/calendar.rs): the 42-cell month grid.           *)
(***************************************************************************)
\* The three parallel vectors; panicked records a panic of week_number.
EmptyGrid == [days |-> <<>>, week_numbers |-> <<>>, weekdays |-> <<>>, panicked |-> FALSE]

\* days.push(None); week_numbers.push(None); weekdays.push(None);
PushNone(g) ==
    [g EXCEPT !.days = Append(@, None),
              !.week_numbers = Append(@, None),
              !.weekdays = Append(@, None)]

RECURSIVE PushNoneTimes(_, _)
PushNoneTimes(g, n) == IF n <= 0 THEN g ELSE PushNoneTimes(PushNone(g), n - 1)

RECURSIVE SuccTimes(_, _)
SuccTimes(w, n) == IF n <= 0 THEN w ELSE SuccTimes(succ(w), n - 1)

\* The offset counted from Monday whatever the week start is.
GridOffset_from_monday(c, first_day) == num_days_from_monday(first_day)

\* Offset of the first day from the week start.
GridOffset(c, first_day) ==
    CASE c.week_start = "Mon" /\ first_day = "Sun" -> 6
      [] c.week_start = "Mon" /\ first_day # "Sun" -> num_days_from_monday(first_day)
      [] c.week_start = "Sun" -> num_days_from_sunday(first_day)

\* The populated cell of one day.
PushDay(c, y, m, g, current_weekday, day) ==
    [g EXCEPT !.days = Append(@, Some(day)),
              !.week_numbers =
                  Append(@, IF c.week_numbers THEN Some(week_number(c, y, m, day)) ELSE None),
              !.weekdays = Append(@, Some(current_weekday))]

\* The fill loop jumping over the gap without pushing its empty cells.
RECURSIVE FillDays_gap_without_cells(_, _, _, _, _, _)
FillDays_gap_without_cells(c, y, m, g, current_weekday, day) ==
    IF day > days_in_month(c, y, m) THEN g
    ELSE IF is_reform_gap(c, y, m, day)
    THEN FillDays_gap_without_cells(c, y, m, g, current_weekday, REFORM_LAST_DAY + 1)
    ELSE IF c.week_numbers /\ week_number_panics(c, y, m, day)
    THEN [g EXCEPT !.panicked = TRUE]
    ELSE FillDays_gap_without_cells(c, y, m, PushDay(c, y, m, g, current_weekday, day),
                                    succ(current_weekday), day + 1)

\* while day <= days_in_month { ... }: the gap pushes one empty cell per removed
\* day and advances the weekday cursor; a panic of week_number ends the build.
RECURSIVE FillDays(_, _, _, _, _, _)
FillDays(c, y, m, g, current_weekday, day) ==
    IF day > days_in_month(c, y, m) THEN g
    ELSE IF is_reform_gap(c, y, m, day)
    THEN FillDays(c, y, m,
                  PushNoneTimes(g, REFORM_LAST_DAY - REFORM_FIRST_DAY + 1),
                  SuccTimes(current_weekday, REFORM_LAST_DAY - REFORM_FIRST_DAY + 1),
                  REFORM_LAST_DAY + 1)
    ELSE IF c.week_numbers /\ week_number_panics(c, y, m, day)
    THEN [g EXCEPT !.panicked = TRUE]
    ELSE FillDays(c, y, m, PushDay(c, y, m, g, current_weekday, day),
                  succ(current_weekday), day + 1)

\* The padding loop with <= for <: one cell too many.
PadGrid_one_more(g) == PushNoneTimes(g, CELLS_PER_MONTH + 1 - Len(g.days))

\* while days.len() < CELLS_PER_MONTH { push None }
PadGrid(g) == PushNoneTimes(g, CELLS_PER_MONTH - Len(g.days))

MonthData_new(c, y, m) ==
    LET first_day == first_day_of_month(c, y, m)
        offset == GridOffset(c, first_day)
        lead == PushNoneTimes(EmptyGrid, offset)
        filled == FillDays(c, y, m, lead, first_day, 1)
        g == IF filled.panicked THEN filled ELSE PadGrid(filled)
    IN [year |-> y, month |-> m, days |-> g.days, week_numbers |-> g.week_numbers,
        weekdays |-> g.weekdays, panicked |-> g.panicked]

(***************************************************************************)
(* The process state outside a run of main (src/src/main.rs): no command   *)
(* line parsed, nothing written, the locale of the environment.            *)
(***************************************************************************)
\* No Args parsed yet.
NoArgs == None

\* The process before main calls run: nothing validated, nothing written.
\* new and date are the results of CalContext::new and get_display_date,
\* stdout the grids and title lines printed, stderr the error message
\* printed, status the exit status (None while running).
IdleProc ==
    [pc |-> "idle", today |-> None, new |-> None, date |-> None,
     stdout |-> <<>>, stderr |-> None, status |-> None]

\* get_system_locale() parses the environment's name; a name it has no
\* Locale for, and an environment without any, give en_US.
DefaultLocale == "en_US"

MainIdle ==
    /\ args = NoArgs
    /\ proc = IdleProc
    /\ locale = DefaultLocale

(***************************************************************************)
(* The calendar specification: a context and a target are drawn, and one   *)
(* operation of the date arithmetic or the grid builder is applied.        *)
(***************************************************************************)
Reforms == {"Gregorian", "Julian", "Year1752"}

Contexts ==
    [reform_year : {reform_year(r) : r \in Reforms},
     week_start : {"Mon", "Sun"},
     week_numbers : BOOLEAN,
     week_type : {"Iso", "Us"},
     color : {FALSE},
     holidays : {FALSE}]

NoCall == [op |-> "none", day |-> 0, ret |-> None]

Threads == {1, 2}

\* A thread outside any holiday operation. data is the code string fetched,
\* site the return statement get_holiday_code left by, ret its result, today
\* and weekday the cell format_day styled, out the style it applied.
IdleThread ==
    [pc |-> "idle", op |-> "none", year |-> 0, month |-> 0, day |-> 0,
     data |-> None, site |-> "none", ret |-> 0,
     today |-> FALSE, weekday |-> "Mon", out |-> "none"]

\* The statics of src/src/formatter.rs before the first holiday operation.
HolidayStatics ==
    /\ PLUGIN = None
    /\ COUNTRY = None
    /\ HOLIDAY_CACHE = None
    /\ lock = [l \in {"PLUGIN", "COUNTRY", "HOLIDAY_CACHE"} |-> 0]
    /\ CACHE = <<>>
    /\ service = "up"
    /\ th = [t \in Threads |-> IdleThread]

CalInit ==
    /\ ctx \in Contexts
    /\ year \in Years
    /\ month \in Months
    /\ call = NoCall
    /\ HolidayStatics
    /\ MainIdle

Call_is_leap_year ==
    /\ call.op = "none"
    /\ call' = [op |-> "is_leap_year", day |-> 0, ret |-> is_leap_year(ctx, year)]
    /\ UNCHANGED <<ctx, year, month, holVars, mainVars>>

Call_days_in_month ==
    /\ call.op = "none"
    /\ call' = [op |-> "days_in_month", day |-> 0, ret |-> days_in_month(ctx, year, month)]
    /\ UNCHANGED <<ctx, year, month, holVars, mainVars>>

Call_is_reform_gap ==
    /\ call.op = "none"
    /\ \E d \in 1..31 :
          call' = [op |-> "is_reform_gap", day |-> d, ret |-> is_reform_gap(ctx, year, month, d)]
    /\ UNCHANGED <<ctx, year, month, holVars, mainVars>>

Call_first_day_of_month ==
    /\ call.op = "none"
    /\ call' = [op |-> "first_day_of_month", day |-> 0,
                ret |-> first_day_of_month(ctx, year, month)]
    /\ UNCHANGED <<ctx, year, month, holVars, mainVars>>

Call_day_of_year ==
    /\ call.op = "none"
    /\ \E d \in 1..days_in_month(ctx, year, month) :
          call' = [op |-> "day_of_year", day |-> d, ret |-> day_of_year(ctx, year, month, d)]
    /\ UNCHANGED <<ctx, year, month, holVars, mainVars>>

Call_MonthData_new ==
    /\ call.op = "none"
    /\ call' = [op |-> "MonthData_new", day |-> 0, ret |-> MonthData_new(ctx, year, month)]
    /\ UNCHANGED <<ctx, year, month, holVars, mainVars>>

\* week_number(year, month, day) for a day of the month as the context counts
\* it; None when from_ymd_opt(..).unwrap() panics, else Some(week).
Call_week_number ==
    /\ call.op = "none"
    /\ \E d \in 1..days_in_month(ctx, year, month) :
          call' = [op |-> "week_number", day |-> d,
                   ret |-> IF week_number_panics(ctx, year, month, d) THEN None
                           ELSE Some(week_number(ctx, year, month, d))]
    /\ UNCHANGED <<ctx, year, month, holVars, mainVars>>

CalNext ==
    \/ Call_is_leap_year
    \/ Call_days_in_month
    \/ Call_is_reform_gap
    \/ Call_first_day_of_month
    \/ Call_day_of_year
    \/ Call_MonthData_new
    \/ Call_week_number

Spec == CalInit /\ [][CalNext]_vars

(***************************************************************************)
(* Properties of the date arithmetic and of the month grid.                *)
(***************************************************************************)
JulianRule(y) == y % 4 = 0
GregorianRule(y) == (y % 4 = 0 /\ y % 100 # 0) \/ (y % 400 = 0)

AlwaysGregorian == ctx.reform_year = I32_MIN
AlwaysJulian == ctx.reform_year = I32_MAX
Transition1752 == ctx.reform_year = 1752

\* C1: is_leap_year is the Julian rule (divisible by 4) in the always-Julian
\* context, the Gregorian rule in the always-Gregorian context, and with the
\* transition year 1752 the Julian rule exactly for years before 1752 and the
\* Gregorian rule exactly for years from 1752 on.
C1_LeapYearRule ==
    call.op = "is_leap_year" =>
        /\ AlwaysJulian => (call.ret <=> JulianRule(year))
        /\ AlwaysGregorian => (call.ret <=> GregorianRule(year))
        /\ Transition1752 /\ year < 1752 => (call.ret <=> JulianRule(year))
        /\ Transition1752 /\ year >= 1752 => (call.ret <=> GregorianRule(year))

\* 1700 under the 1752 transition: leap by the Julian rule only.
C1_Witness ==
    /\ call.op = "is_leap_year"
    /\ Transition1752
    /\ year = 1700
    /\ call.ret = TRUE

\* Cells of a grid that hold a day.
Populated(g) == {i \in 1..Len(g.days) : g.days[i] # None}

\* Days removed from the month by the reform of the context.
GapDays == IF Transition1752 /\ year = 1752 /\ month = 9 THEN 11 ELSE 0

\* C2: with week numbers off, MonthData::new returns three sequences of 42
\* entries, a weekday is present exactly where a day is, and the populated
\* cells number days_in_month minus the reform-gap days; September 1752 under
\* the 1752 transition has 19 populated cells, days 1, 2, 14..30.
C2_GridShape ==
    (call.op = "MonthData_new" /\ ~ctx.week_numbers) =>
        LET g == call.ret
        IN /\ ~g.panicked
           /\ Len(g.days) = 42
           /\ Len(g.week_numbers) = 42
           /\ Len(g.weekdays) = 42
           /\ \A i \in 1..42 : (g.weekdays[i] # None) <=> (g.days[i] # None)
           /\ Cardinality(Populated(g)) = days_in_month(ctx, year, month) - GapDays
           /\ (Transition1752 /\ year = 1752 /\ month = 9) =>
                 /\ Cardinality(Populated(g)) = 19
                 /\ {g.days[i][1] : i \in Populated(g)} = {1, 2} \cup (14..30)

C2_Witness ==
    /\ call.op = "MonthData_new"
    /\ ~ctx.week_numbers
    /\ Transition1752 /\ year = 1752 /\ month = 9
    /\ Cardinality(Populated(call.ret)) = 19

Sept1752Grid ==
    /\ call.op = "MonthData_new"
    /\ Transition1752 /\ year = 1752 /\ month = 9
    /\ ~call.ret.panicked

\* C3 as stated: in the September 1752 grid the cell holding day 14 is the
\* cell immediately after the cell holding day 2.
C3_Original_Day14RightAfterDay2 ==
    Sept1752Grid =>
        \E i \in 1..41 : call.ret.days[i] = Some(2) /\ call.ret.days[i + 1] = Some(14)

\* C3 (amended): in the September 1752 grid day 2 and day 14 are both present
\* and separated by the 11 empty cells of the gap: the cell holding day 14 is
\* the twelfth cell after the cell holding day 2.
C3_GapCellsBetweenDay2AndDay14 ==
    Sept1752Grid =>
        \E i \in 1..30 :
            /\ call.ret.days[i] = Some(2)
            /\ call.ret.days[i + 12] = Some(14)
            /\ \A k \in 1..11 : call.ret.days[i + k] = None

C3_Witness ==
    /\ Sept1752Grid
    /\ \E i \in 1..42 : call.ret.days[i] = Some(2)
    /\ \E i \in 1..42 : call.ret.days[i] = Some(14)

\* C4: is_reform_gap is true exactly when the context's transition year is
\* 1752 and the date is one of September 3..13, 1752; it is false for every
\* date in the always-Gregorian and always-Julian contexts.
C4_ReformGap ==
    call.op = "is_reform_gap" =>
        /\ call.ret <=>
              (Transition1752 /\ year = 1752 /\ month = 9 /\ 3 <= call.day /\ call.day <= 13)
        /\ (AlwaysGregorian \/ AlwaysJulian) => call.ret = FALSE

C4_Witness ==
    /\ call.op = "is_reform_gap"
    /\ year = 1752 /\ month = 9 /\ call.day = 13
    /\ call.ret = TRUE

\* Weekday of a date of the proleptic Gregorian calendar from its day count:
\* the days of the whole months and years before it, 0001-01-01 being a Monday.
RECURSIVE GregorianDaysBeforeMonth(_, _)
GregorianDaysBeforeMonth(y, m) ==
    IF m <= 1 THEN 0
    ELSE GregorianDaysBeforeMonth(y, m - 1) + GregorianDaysInMonth(y, m - 1)

GregorianLeapYearsBefore(y) == ((y - 1) \div 4) - ((y - 1) \div 100) + ((y - 1) \div 400)

GregorianDayCount(y, m, d) ==
    365 * (y - 1) + GregorianLeapYearsBefore(y) + GregorianDaysBeforeMonth(y, m) + (d - 1)

GregorianWeekday(y, m, d) == WeekdaySeq[(GregorianDayCount(y, m, d) % 7) + 1]

\* C5: in the always-Gregorian context, and in the 1752 context for years
\* from 1752 on, first_day_of_month is the weekday of the 1st of the month in
\* the proleptic Gregorian calendar; January 2024 starts on a Monday, January
\* 2025 on a Wednesday and, under the 1752 transition, September 1752 on a
\* Friday.
C5_FirstDayGregorian ==
    (call.op = "first_day_of_month" /\ (AlwaysGregorian \/ (Transition1752 /\ year >= 1752))) =>
        /\ call.ret = GregorianWeekday(year, month, 1)
        /\ (year = 2024 /\ month = 1) => call.ret = "Mon"
        /\ (year = 2025 /\ month = 1) => call.ret = "Wed"
        /\ (Transition1752 /\ year = 1752 /\ month = 9) => call.ret = "Fri"

C5_Witness ==
    /\ call.op = "first_day_of_month"
    /\ Transition1752 /\ year = 1752 /\ month = 9
    /\ call.ret = "Fri"

\* Days of the months before month m in a year without a leap day.
RECURSIVE CumulativeDays(_)
CumulativeDays(m) ==
    IF m <= 1 THEN 0
    ELSE CumulativeDays(m - 1)
           + (CASE (m - 1) \in {4, 6, 9, 11} -> 30 [] (m - 1) = 2 -> 28 [] OTHER -> 31)

\* The day count of the date in its year with nothing subtracted.
PlainDayCount ==
    CumulativeDays(month) + call.day + (IF month > 2 /\ is_leap_year(ctx, year) THEN 1 ELSE 0)

\* C6: day_of_year is the cumulative days-before-month table value plus the
\* day, plus 1 when month > 2 in a leap year, minus 11 when year = 1752 and
\* month >= 9; day_of_year(2024,1,1) = 1, (2024,2,29) = 60, (2024,12,31) = 366
\* and, under the 1752 transition, (1752,9,2) = 235 and (1752,9,14) = 247.
C6_DayOfYearFormula ==
    call.op = "day_of_year" =>
        /\ call.ret = PlainDayCount - (IF year = 1752 /\ month >= 9 THEN 11 ELSE 0)
        /\ (year = 2024 /\ month = 1 /\ call.day = 1) => call.ret = 1
        /\ (year = 2024 /\ month = 2 /\ call.day = 29) => call.ret = 60
        /\ (year = 2024 /\ month = 12 /\ call.day = 31) => call.ret = 366
        /\ (Transition1752 /\ year = 1752 /\ month = 9 /\ call.day = 2) => call.ret = 235
        /\ (Transition1752 /\ year = 1752 /\ month = 9 /\ call.day = 14) => call.ret = 247

C6_Witness ==
    /\ call.op = "day_of_year"
    /\ Transition1752 /\ year = 1752 /\ month = 9 /\ call.day = 14
    /\ call.ret = 247

\* C7: day_of_year subtracts the 11 days of the gap only in 1752 and only
\* once the date is past the gap: up to September 2, 1752 the result is the
\* plain cumulative count, from September 14, 1752 on it is that count minus
\* 11, and in every other year nothing is subtracted (stated for the dates of
\* the 1752 context, where September 3..13, 1752 do not exist).
C7_GapSubtractedOnlyPastGap ==
    (call.op = "day_of_year" /\ Transition1752) =>
        IF year = 1752 /\ (month > 9 \/ (month = 9 /\ call.day >= 14))
        THEN call.ret = PlainDayCount - 11
        ELSE call.ret = PlainDayCount

(***************************************************************************)
(* The holiday boundary (src/src/formatter.rs, src/src/plugin_api.rs):     *)
(* threads call format_day, preload_holidays and preload_year_holidays on  *)
(* the three statics, each guarded by its mutex. A step runs a thread from *)
(* one blocking point (a lock() or the plugin call) to the next.           *)
(***************************************************************************)
\* Days of a month a holiday lookup is made for: 1..MaxHolidayDay.
MaxHolidayDay == 2

HolidayYears == {2024, 2025}
HolidayMonths == {1, 2}
HolidayDays == 1..MaxHolidayDay

\* Code strings, as sequences of characters. Month bodies: one with a holiday
\* and a character that is no digit, a truncated one, and the empty body.
MonthBodies == {<<"8", "x", "1">>, <<"2">>, <<>>}

\* A year body (one character per day of the year, with a digit that is no
\* holiday code on January 2), one cut after January, and the empty body.
YearBody ==
    [i \in 1..365 |-> IF i = 1 THEN "8" ELSE IF i = 2 THEN "5" ELSE IF i = 32 THEN "2"
                      ELSE IF i % 7 \in {0, 6} THEN "1" ELSE "0"]

YearBodies == {YearBody, SubSeq(YearBody, 1, 31), <<>>}

\* What the plugin's C function hands back: a null pointer (None) or a string.
MonthFetchResults == {None} \cup {Some(b) : b \in MonthBodies}
YearFetchResults == {None} \cup {Some(b) : b \in YearBodies}

\* Weekdays of the cells format_day is given, around the weekend.
CellWeekdays == {"Fri", "Sat", "Sun"}

\* char::to_digit(10)
to_digit(ch) ==
    CASE ch = "0" -> Some(0) [] ch = "1" -> Some(1) [] ch = "2" -> Some(2)
      [] ch = "3" -> Some(3) [] ch = "4" -> Some(4) [] ch = "5" -> Some(5)
      [] ch = "6" -> Some(6) [] ch = "7" -> Some(7) [] ch = "8" -> Some(8)
      [] ch = "9" -> Some(9) [] OTHER -> None

\* The code of a day with every character that is no digit read as a weekend.
CodeAt_non_digit_is_weekend(data, day_idx) ==
    IF day_idx < Len(data)
    THEN LET dg == to_digit(data[day_idx + 1])
         IN Some(IF dg = None THEN 1 ELSE dg[1])
    ELSE None

\* if day_idx < data.len() { return data.chars().nth(day_idx)
\*     .and_then(|c| c.to_digit(10).map(|d| d as i32)).unwrap_or(0); }
\* Some(code) when the return is taken, None when the index is past the end.
CodeAt(data, day_idx) ==
    IF day_idx < Len(data)
    THEN LET dg == to_digit(data[day_idx + 1])
         IN Some(IF dg = None THEN 0 ELSE dg[1])
    ELSE None

\* PluginHandle::get_holidays / get_year_holidays: None for a null pointer,
\* else the string copied out of the C buffer.
PluginHandle_get_holidays(raw) == IF raw = None THEN None ELSE Some(raw[1])
PluginHandle_get_year_holidays(raw) == IF raw = None THEN None ELSE Some(raw[1])

\* The cache check of get_holiday_code: the local day_idx, or None for the
\* early return 0 (no such date under a whole-year entry, or an entry of
\* another month).
CacheDayIdx(entry, y, m, d) ==
    IF entry.month = 0
    THEN LET date == from_ymd_opt(y, m, d)
         IN IF date = None THEN None ELSE Some(ordinal(date[1]) - 1)
    ELSE IF entry.month = m THEN Some(d - 1)
    ELSE None

\* should_update with the year comparison forgotten.
should_update_ignoring_year(cache, y) ==
    IF cache = None THEN TRUE ELSE ~(cache[1].month = 0)

\* should_update always true: the month data overwrites whatever is cached.
should_update_always(cache, y) == TRUE

\* Don't overwrite full year cache with month data.
should_update(cache, y) ==
    IF cache = None THEN TRUE ELSE ~(cache[1].year = y /\ cache[1].month = 0)

\* format_day reading every nonzero holiday code as a day off.
format_day_any_code_red(c, date_is_today, wd, holiday_code) ==
    LET is_today == c.color /\ date_is_today
        weekend == c.color /\ is_weekend(wd)
    IN IF is_today THEN "reverse"
       ELSE IF holiday_code = 2 THEN "teal"
       ELSE IF weekend \/ holiday_code # 0 THEN "red"
       ELSE "plain"

\* format_day: the style of the day cell, today > shortened > weekend/holiday.
format_day(c, date_is_today, wd, holiday_code) ==
    LET is_today == c.color /\ date_is_today
        weekend == c.color /\ is_weekend(wd)
    IN IF is_today THEN "reverse"
       ELSE IF holiday_code = 2 THEN "teal"
       ELSE IF weekend \/ holiday_code = 1 \/ holiday_code = 8 THEN "red"
       ELSE "plain"

Held(t) == {l \in DOMAIN lock : lock[l] = t}

\* The guards dropped at a return, with the handle guard kept.
ReleaseAll_keeps_handle(t) ==
    [l \in DOMAIN lock |-> IF lock[l] = t /\ l # "PLUGIN" THEN 0 ELSE lock[l]]

\* The guards a returning function drops.
ReleaseAll(t) == [l \in DOMAIN lock |-> IF lock[l] = t THEN 0 ELSE lock[l]]

\* The records of a thread that has returned from its operation. A preload:
\* its arguments and the return statement it left by (the code it may have got
\* from get_holiday_code is dropped). format_day: the code it got, the cell it
\* styled and the style it applied.
Returned(r, site) ==
    [IdleThread EXCEPT !.pc = "done", !.op = r.op, !.year = r.year, !.month = r.month,
                       !.site = site]

Styled(r, site, code, td, wd) ==
    [IdleThread EXCEPT !.pc = "done", !.op = r.op, !.site = site, !.ret = code,
                       !.today = td, !.weekday = wd, !.out = format_day(ctx, td, wd, code)]

\* get_holiday_code returns code at the return statement site: format_day
\* styles its cell by the code, preload_holidays drops it.
GhcReturns(t, site, code) ==
    IF th[t].op = "format_day"
    THEN \E td \in BOOLEAN, wd \in CellWeekdays :
            th' = [th EXCEPT ![t] = Styled(th[t], site, code, td, wd)]
    ELSE th' = [th EXCEPT ![t] = Returned(th[t], site)]

\* get_holiday_code up to the end of its cache check, made under the cache
\* lock: the cached code, the early return 0, or on to init_plugin.
GhcCheck(t, r) ==
    IF HOLIDAY_CACHE # None /\ HOLIDAY_CACHE[1].year = r.year
    THEN LET entry == HOLIDAY_CACHE[1]
             day_idx == CacheDayIdx(entry, r.year, r.month, r.day)
         IN IF day_idx = None
            THEN GhcReturns(t, "cache_zero", 0)
            ELSE IF CodeAt(entry.data, day_idx[1]) # None
            THEN GhcReturns(t, "cache", CodeAt(entry.data, day_idx[1])[1])
            ELSE th' = [th EXCEPT ![t] = [r EXCEPT !.pc = "ip_lock"]]
    ELSE th' = [th EXCEPT ![t] = [r EXCEPT !.pc = "ip_lock"]]

\* format_day(ctx, day, month, year, weekday, ..): without color no lookup is
\* made; with color get_holiday_code is called and runs to its cache check.
FormatDay(t) ==
    /\ th[t].pc = "idle"
    /\ \E y \in HolidayYears, m \in HolidayMonths, d \in HolidayDays :
          LET r == [IdleThread EXCEPT !.op = "format_day", !.year = y, !.month = m, !.day = d]
          IN IF ~ctx.color
             THEN \E td \in BOOLEAN, wd \in CellWeekdays :
                     th' = [th EXCEPT ![t] = Styled(r, "no_color", 0, td, wd)]
             ELSE IF ~ctx.holidays
             THEN \E td \in BOOLEAN, wd \in CellWeekdays :
                     th' = [th EXCEPT ![t] = Styled(r, "holidays_off", 0, td, wd)]
             ELSE th' = [th EXCEPT ![t] = [r EXCEPT !.pc = "ghc_check"]]
    /\ UNCHANGED <<ctx, calVars, mainVars, plugVars, PLUGIN, COUNTRY, HOLIDAY_CACHE, lock>>

\* get_holiday_code: the cache check.
GhcCacheCheck(t) ==
    /\ th[t].pc = "ghc_check"
    /\ lock["HOLIDAY_CACHE"] = 0
    /\ GhcCheck(t, th[t])
    /\ UNCHANGED <<ctx, calVars, mainVars, plugVars, PLUGIN, COUNTRY, HOLIDAY_CACHE, lock>>

\* preload_holidays(ctx, year, month): the cache check under the cache lock;
\* on a miss it calls get_holiday_code(ctx, year, month, 1).
PreloadHolidays(t) ==
    /\ th[t].pc = "idle"
    /\ \E y \in HolidayYears, m \in HolidayMonths :
          LET r == [IdleThread EXCEPT !.op = "preload_holidays", !.year = y, !.month = m,
                                      !.day = 1]
              hit == /\ HOLIDAY_CACHE # None
                     /\ HOLIDAY_CACHE[1].year = y
                     /\ (HOLIDAY_CACHE[1].month = m \/ HOLIDAY_CACHE[1].month = 0)
          IN IF ~ctx.holidays
             THEN th' = [th EXCEPT ![t] = Returned(r, "holidays_off")]
             ELSE /\ lock["HOLIDAY_CACHE"] = 0
                  /\ th' = [th EXCEPT ![t] =
                               IF hit THEN Returned(r, "cached")
                               ELSE [r EXCEPT !.pc = "ghc_check"]]
    /\ UNCHANGED <<ctx, calVars, mainVars, plugVars, PLUGIN, COUNTRY, HOLIDAY_CACHE, lock>>

\* preload_year_holidays(ctx, year): the cache check under the cache lock.
PreloadYearHolidays(t) ==
    /\ th[t].pc = "idle"
    /\ \E y \in HolidayYears :
          LET r == [IdleThread EXCEPT !.op = "preload_year_holidays", !.year = y]
              hit == /\ HOLIDAY_CACHE # None
                     /\ HOLIDAY_CACHE[1].year = y
                     /\ HOLIDAY_CACHE[1].month = 0
          IN IF ~ctx.holidays
             THEN th' = [th EXCEPT ![t] = Returned(r, "holidays_off")]
             ELSE /\ lock["HOLIDAY_CACHE"] = 0
                  /\ th' = [th EXCEPT ![t] =
                               IF hit THEN Returned(r, "cached")
                               ELSE [r EXCEPT !.pc = "ip_lock"]]
    /\ UNCHANGED <<ctx, calVars, mainVars, plugVars, PLUGIN, COUNTRY, HOLIDAY_CACHE, lock>>

\* What the caller of init_plugin does when it returns false.
InitFailed(t) ==
    IF th[t].op = "preload_year_holidays"
    THEN th' = [th EXCEPT ![t] = Returned(th[t], "no_plugin")]
    ELSE GhcReturns(t, "no_plugin", 0)

\* init_plugin: PLUGIN.lock(); a stored handle is reused, else
\* try_load_plugin() runs under the handle lock and may find no loadable
\* plugin on any search path.
InitPlugin(t) ==
    /\ th[t].pc = "ip_lock"
    /\ lock["PLUGIN"] = 0
    /\ IF PLUGIN # None
       THEN /\ th' = [th EXCEPT ![t].pc = "lock_plugin"]
            /\ UNCHANGED lock
       ELSE \E loaded \in BOOLEAN :
               IF loaded
               THEN /\ th' = [th EXCEPT ![t].pc = "ip_store"]
                    /\ lock' = [lock EXCEPT !["PLUGIN"] = t]
               ELSE /\ InitFailed(t)
                    /\ UNCHANGED lock
    /\ UNCHANGED <<ctx, calVars, mainVars, plugVars, PLUGIN, COUNTRY, HOLIDAY_CACHE>>

\* init_plugin storing the country and the handle with its two guards never
\* dropped.
InitPluginStore_keeps_guards(t) ==
    /\ th[t].pc = "ip_store"
    /\ lock["COUNTRY"] = 0
    /\ COUNTRY' = Some("RU")
    /\ PLUGIN' = Some("handle")
    /\ lock' = [lock EXCEPT !["COUNTRY"] = t]
    /\ th' = [th EXCEPT ![t].pc = "lock_plugin"]
    /\ UNCHANGED <<ctx, calVars, mainVars, plugVars, HOLIDAY_CACHE>>

\* init_plugin: COUNTRY.lock(), store the country and the handle, return true.
InitPluginStore(t) ==
    /\ th[t].pc = "ip_store"
    /\ lock["COUNTRY"] = 0
    /\ COUNTRY' = Some("RU")
    /\ PLUGIN' = Some("handle")
    /\ lock' = ReleaseAll(t)
    /\ th' = [th EXCEPT ![t].pc = "lock_plugin"]
    /\ UNCHANGED <<ctx, calVars, mainVars, plugVars, HOLIDAY_CACHE>>

\* let plugin_guard = PLUGIN.lock().unwrap();
LockPlugin(t) ==
    /\ th[t].pc = "lock_plugin"
    /\ lock["PLUGIN"] = 0
    /\ lock' = [lock EXCEPT !["PLUGIN"] = t]
    /\ th' = [th EXCEPT ![t].pc = "lock_country"]
    /\ UNCHANGED <<ctx, calVars, mainVars, plugVars, PLUGIN, COUNTRY, HOLIDAY_CACHE>>

\* let country_guard = COUNTRY.lock().unwrap();
LockCountry(t) ==
    /\ th[t].pc = "lock_country"
    /\ lock["COUNTRY"] = 0
    /\ lock' = [lock EXCEPT !["COUNTRY"] = t]
    /\ th' = [th EXCEPT ![t].pc = "fetch"]
    /\ UNCHANGED <<ctx, calVars, mainVars, plugVars, PLUGIN, COUNTRY, HOLIDAY_CACHE>>

\* get_holiday_code: plugin.get_holidays(year, month, country), called with
\* the handle and country guards held; None ends the lookup with 0.
GhcFetch(t) ==
    /\ th[t].pc = "fetch"
    /\ th[t].op # "preload_year_holidays"
    /\ IF PLUGIN # None /\ COUNTRY # None
       THEN \E raw \in MonthFetchResults :
               LET data == PluginHandle_get_holidays(raw)
               IN IF data = None
                  THEN GhcReturns(t, "fetch_none", 0)
                  ELSE th' = [th EXCEPT ![t].pc = "store", ![t].data = data]
       ELSE GhcReturns(t, "no_plugin", 0)
    /\ lock' = IF th'[t].pc = "done" THEN ReleaseAll(t) ELSE lock
    /\ UNCHANGED <<ctx, calVars, mainVars, plugVars, PLUGIN, COUNTRY, HOLIDAY_CACHE>>

\* get_holiday_code: HOLIDAY_CACHE.lock(), the guarded update, and the code of
\* the requested day out of the fetched string (0 past its end).
GhcStore(t) ==
    /\ th[t].pc = "store"
    /\ th[t].op # "preload_year_holidays"
    /\ lock["HOLIDAY_CACHE"] = 0
    /\ LET r == th[t]
           data == r.data[1]
           code == CodeAt(data, r.day - 1)
       IN /\ HOLIDAY_CACHE' =
                 IF should_update(HOLIDAY_CACHE, r.year)
                 THEN Some([year |-> r.year, month |-> r.month, data |-> data])
                 ELSE HOLIDAY_CACHE
          /\ IF code # None
             THEN GhcReturns(t, "fetch", code[1])
             ELSE GhcReturns(t, "end", 0)
    /\ lock' = ReleaseAll(t)
    /\ UNCHANGED <<ctx, calVars, mainVars, plugVars, PLUGIN, COUNTRY>>

\* preload_year_holidays: plugin.get_year_holidays(year, country), called
\* with the handle and country guards held.
PyFetch(t) ==
    /\ th[t].pc = "fetch"
    /\ th[t].op = "preload_year_holidays"
    /\ IF PLUGIN # None /\ COUNTRY # None
       THEN \E raw \in YearFetchResults :
               LET data == PluginHandle_get_year_holidays(raw)
               IN IF data = None
                  THEN th' = [th EXCEPT ![t] = Returned(th[t], "fetch_none")]
                  ELSE th' = [th EXCEPT ![t].pc = "store", ![t].data = data]
       ELSE th' = [th EXCEPT ![t] = Returned(th[t], "no_plugin")]
    /\ lock' = IF th'[t].pc = "done" THEN ReleaseAll(t) ELSE lock
    /\ UNCHANGED <<ctx, calVars, mainVars, plugVars, PLUGIN, COUNTRY, HOLIDAY_CACHE>>

\* preload_year_holidays: *cache_guard = Some((year, 0, data));
PyStore(t) ==
    /\ th[t].pc = "store"
    /\ th[t].op = "preload_year_holidays"
    /\ lock["HOLIDAY_CACHE"] = 0
    /\ HOLIDAY_CACHE' = Some([year |-> th[t].year, month |-> 0, data |-> th[t].data[1]])
    /\ th' = [th EXCEPT ![t] = Returned(th[t], "stored")]
    /\ lock' = ReleaseAll(t)
    /\ UNCHANGED <<ctx, calVars, mainVars, plugVars, PLUGIN, COUNTRY>>

\* The operation has returned; the thread is free for the next one.
Finish(t) ==
    /\ th[t].pc = "done"
    /\ th' = [th EXCEPT ![t] = IdleThread]
    /\ UNCHANGED <<ctx, calVars, mainVars, plugVars, PLUGIN, COUNTRY, HOLIDAY_CACHE, lock>>

HolidayContexts ==
    [reform_year : {REFORM_YEAR_GB},
     week_start : {"Mon"},
     week_numbers : {FALSE},
     week_type : {"Iso"},
     color : BOOLEAN,
     holidays : BOOLEAN]

HolidayInit ==
    /\ ctx \in HolidayContexts
    /\ year = 2024
    /\ month = 1
    /\ call = NoCall
    /\ HolidayStatics
    /\ MainIdle

HolidayNext ==
    \E t \in Threads :
        \/ FormatDay(t)
        \/ GhcCacheCheck(t)
        \/ PreloadHolidays(t)
        \/ PreloadYearHolidays(t)
        \/ InitPlugin(t)
        \/ InitPluginStore(t)
        \/ LockPlugin(t)
        \/ LockCountry(t)
        \/ GhcFetch(t)
        \/ GhcStore(t)
        \/ PyFetch(t)
        \/ PyStore(t)
        \/ Finish(t)

SpecHoliday == HolidayInit /\ [][HolidayNext]_vars

(***************************************************************************)
(* Properties of the holiday cache and of the holiday lookup.              *)
(***************************************************************************)
\* Thread t takes the step.
Moves(t) == th'[t] # th[t]

\* Thread t is inside get_holiday_code (called by format_day or by
\* preload_holidays): a per-month lookup.
InMonthLookup(t) == th[t].op \in {"format_day", "preload_holidays"}

\* The cache holds the whole-year entry of the year thread t asks for.
WholeYearEntryFor(t) ==
    /\ HOLIDAY_CACHE # None
    /\ HOLIDAY_CACHE[1].month = 0
    /\ HOLIDAY_CACHE[1].year = th[t].year

\* C8: once the cache holds a whole-year entry (Y, 0, data), no step of a
\* per-month lookup for the same year Y, by any thread in any interleaving,
\* replaces or alters the entry; and the cache never holds more than one
\* entry.
C8_WholeYearEntryKept ==
    /\ [][\A t \in Threads :
            (InMonthLookup(t) /\ WholeYearEntryFor(t) /\ Moves(t))
                => HOLIDAY_CACHE' = HOLIDAY_CACHE]_vars
    /\ [](Len(HOLIDAY_CACHE) <= 1)

\* A month fetch for year Y has returned its data and is about to store it
\* while the cache holds the whole-year entry of Y.
C8_Witness ==
    \E t \in Threads :
        /\ th[t].pc = "store"
        /\ InMonthLookup(t)
        /\ WholeYearEntryFor(t)
        /\ th[t].data # None /\ th[t].data[1] # HOLIDAY_CACHE[1].data

\* The cache holds an entry for another year than y.
CacheOfOtherYear(y) == HOLIDAY_CACHE # None /\ HOLIDAY_CACHE[1].year # y

\* A request for a year the cache does not hold goes on to init_plugin.
C9_RequestGoesToFetch(t) ==
    /\ (th[t].pc = "idle" /\ th'[t].op \in {"preload_holidays", "preload_year_holidays"}
            /\ CacheOfOtherYear(th'[t].year))
          => th'[t].pc \in {"ghc_check", "ip_lock"}
    /\ (th[t].pc = "ghc_check" /\ CacheOfOtherYear(th[t].year)) => th'[t].pc = "ip_lock"
    /\ (th[t].pc = "ip_lock" /\ HOLIDAY_CACHE # None) => th'[t].pc = "lock_plugin"

\* The entry a request stores: (year, month, data), month 0 for a year fetch.
C9_EntryOf(r) ==
    Some([year |-> r.year,
          month |-> IF r.op = "preload_year_holidays" THEN 0 ELSE r.month,
          data |-> r.data[1]])

\* The store of a request for a year the cache does not hold replaces the
\* entry outright.
C9_StoreReplaces(t) ==
    (th[t].pc = "store" /\ CacheOfOtherYear(th[t].year)) => HOLIDAY_CACHE' = C9_EntryOf(th[t])

Digits == {"0", "1", "2", "3", "4", "5", "6", "7", "8", "9"}

\* get_holiday_code, called by format_day, returns 0 when the plugin cannot be
\* loaded, when the fetch returns null, when the fetched string is shorter
\* than the day index and when the character at the index is no digit.
C10_FailureReturnsZero(t) ==
    /\ (th[t].pc = "ip_lock" /\ th'[t].pc = "done" /\ th[t].op = "format_day") =>
          th'[t].site = "no_plugin" /\ th'[t].ret = 0
    /\ (th[t].pc = "fetch" /\ th'[t].pc = "done" /\ th[t].op = "format_day") =>
          th'[t].site = "fetch_none" /\ th'[t].ret = 0
    /\ (th[t].pc = "store" /\ th[t].op = "format_day") =>
          LET data == th[t].data[1]
          IN /\ th[t].day > Len(data) => th'[t].ret = 0
             /\ (th[t].day <= Len(data) /\ data[th[t].day] \notin Digits) => th'[t].ret = 0

\* A cell whose code is none of 1, 2, 8 is styled like a working day: reverse
\* video if it is today, red on a Saturday or Sunday, else plain.
C10_UnknownCodeLikeWorkingDay ==
    \A t \in Threads :
        (th[t].pc = "done" /\ th[t].op = "format_day" /\ th[t].ret \notin {1, 2, 8}) =>
            th[t].out = IF ctx.color /\ th[t].today THEN "reverse"
                        ELSE IF ctx.color /\ th[t].weekday \in {"Sat", "Sun"} THEN "red"
                        ELSE "plain"

\* C10: every holiday-lookup failure is recovered locally: when the plugin
\* cannot be loaded, a fetch returns null, the returned string is shorter than
\* the day index or the character at the index is no digit, get_holiday_code
\* returns 0; and a day with any code other than 1, 2 or 8 is rendered exactly
\* like a working day.
C10_LookupFailureIsWorkingDay ==
    /\ [][\A t \in Threads : Moves(t) => C10_FailureReturnsZero(t)]_vars
    /\ []C10_UnknownCodeLikeWorkingDay

\* One cell was rendered plain after a null fetch and another after a digit
\* that is no holiday code.
C10_Witness ==
    \E t, u \in Threads :
        /\ th[t].pc = "done" /\ th[t].op = "format_day"
        /\ th[t].site = "fetch_none" /\ th[t].ret = 0 /\ th[t].out = "plain"
        /\ th[u].pc = "done" /\ th[u].op = "format_day"
        /\ th[u].ret = 5 /\ th[u].out = "plain"

(***************************************************************************)
(* Properties of the grid layout and of the week numbers.                  *)
(***************************************************************************)
\* The weekdays in week-start order.
WeekOrder(week_start) ==
    [i \in 1..7 |-> WeekdaySeq[((num_days_from_monday(week_start) + i - 1) % 7) + 1]]

\* (weekday of the 1st - week-start day) mod 7
LeadingCells ==
    (num_days_from_monday(first_day_of_month(ctx, year, month))
        - num_days_from_monday(ctx.week_start)) % 7

CallDate == from_ymd_opt(year, month, call.day)

NextDayInYear ==
    IF call.day < GregorianDaysInMonth(year, month) THEN Some(<<month, call.day + 1>>)
    ELSE IF month < 12 THEN Some(<<month + 1, 1>>)
    ELSE None

\* Day count of the Monday that starts ISO week 1 of year y: three days
\* before the year's first Thursday.
IsoWeek1Start(y) ==
    LET jan1 == GregorianDayCount(y, 1, 1)
        first_thursday == jan1 + ((3 - (jan1 % 7)) % 7)
    IN first_thursday - 3

\* The ISO week of a day count in year y, counted from the week of the first
\* Thursday of the ISO year the day belongs to.
IsoWeekByFirstThursday(y, count) ==
    LET iso_year == IF count >= IsoWeek1Start(y + 1) THEN y + 1
                    ELSE IF count >= IsoWeek1Start(y) THEN y
                    ELSE y - 1
    IN ((count - IsoWeek1Start(iso_year)) \div 7) + 1

\* C16: for a date chrono has, the US week number is
\* floor((days from January 1 + weekday index of January 1 from Sunday) / 7) + 1,
\* January 1 is in week 1 and the number goes up by exactly 1 at each Sunday;
\* the ISO week number counts Monday weeks from the week holding the year's
\* first Thursday; week_number(2024, 1, 1) = 1 under both policies.
C16_WeekNumberPolicies ==
    (call.op = "week_number" /\ CallDate # None) =>
        LET count == GregorianDayCount(year, month, call.day)
            jan1 == GregorianDayCount(year, 1, 1)
            jan1_index == ((jan1 % 7) + 1) % 7
        IN /\ call.ret # None
           /\ ctx.week_type = "Us" =>
                 /\ call.ret[1] = (((count - jan1) + jan1_index) \div 7) + 1
                 /\ (month = 1 /\ call.day = 1) => call.ret[1] = 1
                 /\ NextDayInYear # None =>
                       LET n == NextDayInYear[1]
                       IN week_number(ctx, year, n[1], n[2]) =
                             call.ret[1] + (IF GregorianWeekday(year, n[1], n[2]) = "Sun"
                                         THEN 1 ELSE 0)
           /\ ctx.week_type = "Iso" => call.ret[1] = IsoWeekByFirstThursday(year, count)
           /\ (year = 2024 /\ month = 1 /\ call.day = 1) => call.ret[1] = 1

\* US week 2 of 2024 starts on Sunday January 7, which the ISO policy still
\* counts in week 1; the ISO week of 2024-12-30 is week 1 of 2025.
C16_Witness ==
    /\ call.op = "week_number"
    /\ year = 2024
    /\ \/ ctx.week_type = "Us" /\ month = 1 /\ call.day = 7 /\ call.ret = Some(2)
       \/ ctx.week_type = "Iso" /\ month = 12 /\ call.day = 30 /\ call.ret = Some(1)

(***************************************************************************)
(* Text.  A string is the sequence of the code points of its chars, so     *)
(* that case folding, number parsing and display width are computed as     *)
(* the program computes them.                                              *)
(***************************************************************************)
\* UnicodeWidthChar::width: control characters take no column, the East
\* Asian wide and fullwidth blocks take two, every other character one.
CharWidth(cp) ==
    IF cp < 32 \/ (cp >= 127 /\ cp < 160) THEN 0
    ELSE IF \/ (cp >= 4352 /\ cp <= 4447)
            \/ (cp >= 11904 /\ cp <= 42191)
            \/ (cp >= 44032 /\ cp <= 55203)
            \/ (cp >= 63744 /\ cp <= 64255)
            \/ (cp >= 65280 /\ cp <= 65376)
    THEN 2
    ELSE 1

\* UnicodeWidthStr::width
RECURSIVE width(_)
width(s) == IF s = <<>> THEN 0 ELSE CharWidth(Head(s)) + width(Tail(s))

\* " ".repeat(n)
repeat_space(n) == [i \in 1..n |-> 32]

\* char::to_lowercase on the Latin and Cyrillic capitals (A-Z, U+0400-U+040F,
\* U+0410-U+042F); every other character of the model's texts is its own
\* lower case.
char_to_lowercase(cp) ==
    IF cp >= 65 /\ cp <= 90 THEN cp + 32
    ELSE IF cp >= 1040 /\ cp <= 1071 THEN cp + 32
    ELSE IF cp >= 1024 /\ cp <= 1039 THEN cp + 80
    ELSE cp

\* str::to_lowercase
to_lowercase(s) == [i \in DOMAIN s |-> char_to_lowercase(s[i])]

IsDigit(cp) == cp >= 48 /\ cp <= 57

RECURSIVE DecimalValue(_, _)
DecimalValue(s, acc) ==
    IF s = <<>> THEN acc ELSE DecimalValue(Tail(s), 10 * acc + (Head(s) - 48))

\* The digits without their leading zeros.
RECURSIVE StripZeros(_)
StripZeros(s) == IF Len(s) > 1 /\ Head(s) = 48 THEN StripZeros(Tail(s)) ELSE s

\* Digit strings of equal length compare as their values do.
DigitsLE(a, b) ==
    \/ a = b
    \/ \E i \in DOMAIN a : a[i] < b[i] /\ \A j \in 1..(i - 1) : a[j] = b[j]

\* The value of the digit string is at most that of the digit string max.
ValueAtMost(s, max) ==
    LET sig == StripZeros(s)
    IN Len(sig) < Len(max) \/ (Len(sig) = Len(max) /\ DigitsLE(sig, max))

\* u32::MAX, i32::MAX and -(i32::MIN) in decimal.
U32_MAX_DIGITS == <<52, 50, 57, 52, 57, 54, 55, 50, 57, 53>>
I32_MAX_DIGITS == <<50, 49, 52, 55, 52, 56, 51, 54, 52, 55>>
I32_MIN_DIGITS == <<50, 49, 52, 55, 52, 56, 51, 54, 52, 56>>

\* str::parse::<u32>: an optional '+', then one or more digits, the value at
\* most u32::MAX. The numbers of the model are 32-bit signed: a value in
\* i32::MAX+1..u32::MAX is accepted as the program accepts it and is given as
\* i32::MAX (no string of the model has such a value).
parse_u32(s) ==
    LET digits == IF s # <<>> /\ Head(s) = 43 THEN Tail(s) ELSE s
    IN IF /\ digits # <<>>
          /\ \A i \in DOMAIN digits : IsDigit(digits[i])
          /\ ValueAtMost(digits, U32_MAX_DIGITS)
       THEN IF ValueAtMost(digits, I32_MAX_DIGITS)
            THEN Some(DecimalValue(StripZeros(digits), 0))
            ELSE Some(I32_MAX)
       ELSE None

\* str::parse::<i32>: an optional sign, then one or more digits, the value in
\* i32::MIN..i32::MAX.
parse_i32(s) ==
    LET signed == s # <<>> /\ Head(s) \in {43, 45}
        negative == signed /\ Head(s) = 45
        digits == IF signed THEN Tail(s) ELSE s
    IN IF digits = <<>> \/ \E i \in DOMAIN digits : ~IsDigit(digits[i]) THEN None
       ELSE IF ValueAtMost(digits, I32_MAX_DIGITS)
       THEN Some(IF negative THEN -DecimalValue(StripZeros(digits), 0)
                 ELSE DecimalValue(StripZeros(digits), 0))
       ELSE IF negative /\ StripZeros(digits) = I32_MIN_DIGITS THEN Some(I32_MIN)
       ELSE None

RECURSIVE Decimal(_)
Decimal(n) == IF n < 10 THEN <<48 + n>> ELSE Append(Decimal(n \div 10), 48 + (n % 10))

\* ToString for the integers
to_string(n) == IF n < 0 THEN <<45>> \o Decimal(-n) ELSE Decimal(n)

\* format!("{:>w$}", s): padded on the left to w chars.
pad_left(s, w) == IF Len(s) >= w THEN s ELSE repeat_space(w - Len(s)) \o s

\* format!("{:<w$}", s): padded on the right to w chars.
pad_right(s, w) == IF Len(s) >= w THEN s ELSE s \o repeat_space(w - Len(s))

\* The escape sequences of src/src/types.rs.
COLOR_RESET == <<27, 91, 48, 109>>
COLOR_REVERSE == <<27, 91, 55, 109>>
COLOR_RED == <<27, 91, 57, 49, 109>>
COLOR_TEAL == <<27, 91, 57, 54, 109>>
COLOR_SAND_YELLOW == <<27, 91, 57, 51, 109>>

(***************************************************************************)
(* Month names (src/src/formatter.rs).                                     *)
(***************************************************************************)
\* The locales get_month_name has a table for, and en_US for the generic
\* branch.
Locales == {"en_US", "ru_RU", "uk_UA", "be_BY"}

\* Locale::ru_RU: Январь, Февраль, Март, Апрель, Май, Июнь, Июль, Август, Сентябрь, Октябрь, Ноябрь, Декабрь
MonthNames_ru_RU ==
    <<<<1071, 1085, 1074, 1072, 1088, 1100>>,
      <<1060, 1077, 1074, 1088, 1072, 1083, 1100>>,
      <<1052, 1072, 1088, 1090>>,
      <<1040, 1087, 1088, 1077, 1083, 1100>>,
      <<1052, 1072, 1081>>,
      <<1048, 1102, 1085, 1100>>,
      <<1048, 1102, 1083, 1100>>,
      <<1040, 1074, 1075, 1091, 1089, 1090>>,
      <<1057, 1077, 1085, 1090, 1103, 1073, 1088, 1100>>,
      <<1054, 1082, 1090, 1103, 1073, 1088, 1100>>,
      <<1053, 1086, 1103, 1073, 1088, 1100>>,
      <<1044, 1077, 1082, 1072, 1073, 1088, 1100>>>>

\* Locale::uk_UA: Січень, Лютий, Березень, Квітень, Травень, Червень, Липень, Серпень, Вересень, Жовтень, Листопад, Грудень
MonthNames_uk_UA ==
    <<<<1057, 1110, 1095, 1077, 1085, 1100>>,
      <<1051, 1102, 1090, 1080, 1081>>,
      <<1041, 1077, 1088, 1077, 1079, 1077, 1085, 1100>>,
      <<1050, 1074, 1110, 1090, 1077, 1085, 1100>>,
      <<1058, 1088, 1072, 1074, 1077, 1085, 1100>>,
      <<1063, 1077, 1088, 1074, 1077, 1085, 1100>>,
      <<1051, 1080, 1087, 1077, 1085, 1100>>,
      <<1057, 1077, 1088, 1087, 1077, 1085, 1100>>,
      <<1042, 1077, 1088, 1077, 1089, 1077, 1085, 1100>>,
      <<1046, 1086, 1074, 1090, 1077, 1085, 1100>>,
      <<1051, 1080, 1089, 1090, 1086, 1087, 1072, 1076>>,
      <<1043, 1088, 1091, 1076, 1077, 1085, 1100>>>>

\* Locale::be_BY: Студзень, Люты, Сакавік, Красавік, Май, Чэрвень, Ліпень, Жнівень, Верасень, Кастрычнік, Лістапад, Снежань
MonthNames_be_BY ==
    <<<<1057, 1090, 1091, 1076, 1079, 1077, 1085, 1100>>,
      <<1051, 1102, 1090, 1099>>,
      <<1057, 1072, 1082, 1072, 1074, 1110, 1082>>,
      <<1050, 1088, 1072, 1089, 1072, 1074, 1110, 1082>>,
      <<1052, 1072, 1081>>,
      <<1063, 1101, 1088, 1074, 1077, 1085, 1100>>,
      <<1051, 1110, 1087, 1077, 1085, 1100>>,
      <<1046, 1085, 1110, 1074, 1077, 1085, 1100>>,
      <<1042, 1077, 1088, 1072, 1089, 1077, 1085, 1100>>,
      <<1050, 1072, 1089, 1090, 1088, 1099, 1095, 1085, 1110, 1082>>,
      <<1051, 1110, 1089, 1090, 1072, 1087, 1072, 1076>>,
      <<1057, 1085, 1077, 1078, 1072, 1085, 1100>>>>

\* date.format_localized("%B", Locale::en_US): January, February, March, April, May, June, July, August, September, October, November, December
MonthNames_en_US ==
    <<<<74, 97, 110, 117, 97, 114, 121>>,
      <<70, 101, 98, 114, 117, 97, 114, 121>>,
      <<77, 97, 114, 99, 104>>,
      <<65, 112, 114, 105, 108>>,
      <<77, 97, 121>>,
      <<74, 117, 110, 101>>,
      <<74, 117, 108, 121>>,
      <<65, 117, 103, 117, 115, 116>>,
      <<83, 101, 112, 116, 101, 109, 98, 101, 114>>,
      <<79, 99, 116, 111, 98, 101, 114>>,
      <<78, 111, 118, 101, 109, 98, 101, 114>>,
      <<68, 101, 99, 101, 109, 98, 101, 114>>>>

\* get_month_name(month) under the locale of the environment.
get_month_name(loc, m) ==
    CASE loc = "ru_RU" -> MonthNames_ru_RU[m]
      [] loc = "uk_UA" -> MonthNames_uk_UA[m]
      [] loc = "be_BY" -> MonthNames_be_BY[m]
      [] OTHER -> MonthNames_en_US[m]

\* parse_month: the table month_names, in its order.
\* january, february, march, april, may, june, july, august, september, october, november, december;
\* январь, февраль, март, апрель, май, июнь, июль, август, сентябрь, октябрь, ноябрь, декабрь;
\* jan, feb, mar, apr, jun, jul, aug, sep, oct, nov, dec.
month_names ==
    <<<<<<106, 97, 110, 117, 97, 114, 121>>, 1>>,
      <<<<102, 101, 98, 114, 117, 97, 114, 121>>, 2>>,
      <<<<109, 97, 114, 99, 104>>, 3>>,
      <<<<97, 112, 114, 105, 108>>, 4>>,
      <<<<109, 97, 121>>, 5>>,
      <<<<106, 117, 110, 101>>, 6>>,
      <<<<106, 117, 108, 121>>, 7>>,
      <<<<97, 117, 103, 117, 115, 116>>, 8>>,
      <<<<115, 101, 112, 116, 101, 109, 98, 101, 114>>, 9>>,
      <<<<111, 99, 116, 111, 98, 101, 114>>, 10>>,
      <<<<110, 111, 118, 101, 109, 98, 101, 114>>, 11>>,
      <<<<100, 101, 99, 101, 109, 98, 101, 114>>, 12>>,
      <<<<1103, 1085, 1074, 1072, 1088, 1100>>, 1>>,
      <<<<1092, 1077, 1074, 1088, 1072, 1083, 1100>>, 2>>,
      <<<<1084, 1072, 1088, 1090>>, 3>>,
      <<<<1072, 1087, 1088, 1077, 1083, 1100>>, 4>>,
      <<<<1084, 1072, 1081>>, 5>>,
      <<<<1080, 1102, 1085, 1100>>, 6>>,
      <<<<1080, 1102, 1083, 1100>>, 7>>,
      <<<<1072, 1074, 1075, 1091, 1089, 1090>>, 8>>,
      <<<<1089, 1077, 1085, 1090, 1103, 1073, 1088, 1100>>, 9>>,
      <<<<1086, 1082, 1090, 1103, 1073, 1088, 1100>>, 10>>,
      <<<<1085, 1086, 1103, 1073, 1088, 1100>>, 11>>,
      <<<<1076, 1077, 1082, 1072, 1073, 1088, 1100>>, 12>>,
      <<<<106, 97, 110>>, 1>>,
      <<<<102, 101, 98>>, 2>>,
      <<<<109, 97, 114>>, 3>>,
      <<<<97, 112, 114>>, 4>>,
      <<<<106, 117, 110>>, 6>>,
      <<<<106, 117, 108>>, 7>>,
      <<<<97, 117, 103>>, 8>>,
      <<<<115, 101, 112>>, 9>>,
      <<<<111, 99, 116>>, 10>>,
      <<<<110, 111, 118>>, 11>>,
      <<<<100, 101, 99>>, 12>>>>

\* parse_month: a number 1..12, else the first table entry equal to the
\* lower-cased string.
parse_month(s) ==
    LET n == parse_u32(s)
        s_lower == to_lowercase(s)
    IN IF n # None /\ n[1] >= 1 /\ n[1] <= 12 THEN Some(n[1])
       ELSE LET hits == {i \in DOMAIN month_names : month_names[i][1] = s_lower}
            IN IF hits = {} THEN None
               ELSE Some(month_names[CHOOSE i \in hits : \A j \in hits : i <= j][2])

\* center_text with the odd column of padding on the right.
center_text_remainder_right(text, w) ==
    LET text_width == width(text)
    IN IF text_width >= w THEN text
       ELSE LET total_padding == w - text_width
                left_padding == total_padding \div 2
                right_padding == total_padding - left_padding
            IN repeat_space(left_padding) \o text \o repeat_space(right_padding)

\* center_text: total_padding.div_ceil(2) spaces on the left, the rest on
\* the right.
center_text(text, w) ==
    LET text_width == width(text)
    IN IF text_width >= w THEN text
       ELSE LET total_padding == w - text_width
                left_padding == (total_padding + 1) \div 2
                right_padding == total_padding - left_padding
            IN repeat_space(left_padding) \o text \o repeat_space(right_padding)

\* format_month_header(year, month, width, show_year, color)
format_month_header(loc, y, m, w, show_year, color) ==
    LET month_name == get_month_name(loc, m)
        header == IF show_year THEN month_name \o <<32>> \o to_string(y) ELSE month_name
        centered == center_text(header, w)
    IN IF color THEN COLOR_TEAL \o centered \o COLOR_RESET ELSE centered

(***************************************************************************)
(* The text specification: a locale and a month are drawn, and one of the  *)
(* text operations is applied; parse_month is also applied to the name     *)
(* get_month_name has produced.                                            *)
(***************************************************************************)
\* Numbers 0..MaxNumber are given to parse_month as decimal strings.
MaxNumber == 13

\* center_text is given the field widths 0..MaxFieldWidth and the widths of
\* the month and year headers.
MaxFieldWidth == 8

TextYears == {1, 2024, 9999}

\* char::to_uppercase on the letters of the table.
char_to_uppercase(cp) ==
    IF cp >= 97 /\ cp <= 122 THEN cp - 32
    ELSE IF cp >= 1072 /\ cp <= 1103 THEN cp - 32
    ELSE IF cp >= 1104 /\ cp <= 1119 THEN cp - 80
    ELSE cp

to_uppercase(s) == [i \in DOMAIN s |-> char_to_uppercase(s[i])]
Capitalized(s) == [i \in DOMAIN s |-> IF i = 1 THEN char_to_uppercase(s[i]) ELSE s[i]]
Alternating(s) == [i \in DOMAIN s |-> IF i % 2 = 0 THEN char_to_uppercase(s[i]) ELSE s[i]]

TableNames == {month_names[i][1] : i \in DOMAIN month_names}

\* The strings given to parse_month: the table's names in four letter cases,
\* decimal numbers, numbers with a leading zero or a sign, a number past
\* u32::MAX, the empty string, and names that are not in the table
\* ("sept", "janu", "1x", the Russian genitive "мая").
MonthTokens ==
    TableNames
        \cup {to_uppercase(n) : n \in TableNames}
        \cup {Capitalized(n) : n \in TableNames}
        \cup {Alternating(n) : n \in TableNames}
        \cup {to_string(n) : n \in 0..MaxNumber}
        \cup {<<48, 49>>, <<48, 49, 50>>, <<48, 48>>, <<43, 53>>, <<45, 49>>,
              U32_MAX_DIGITS, Append(U32_MAX_DIGITS, 48), <<>>,
              <<115, 101, 112, 116>>, <<106, 97, 110, 117>>, <<49, 120>>, <<1084, 1072, 1103>>}

\* The texts given to center_text: empty, narrow, Cyrillic, and with East
\* Asian wide characters ("一月", "a月").
Texts ==
    {<<>>, <<97>>, <<97, 98>>, <<97, 98, 99>>, to_string(2024),
     MonthNames_ru_RU[9] \o <<32>> \o to_string(2024),
     <<19968, 26376>>, <<97, 26376>>}

FieldWidths == (0..MaxFieldWidth) \cup {20, 23, 27, 62, 66}

HeaderWidths == {20, 23, 27}

TextInit ==
    /\ ctx = None
    /\ year \in TextYears
    /\ month \in Months
    /\ call = NoCall
    /\ HolidayStatics
    /\ args = NoArgs
    /\ proc = IdleProc
    /\ locale \in Locales

Text_get_month_name ==
    /\ call.op = "none"
    /\ call' = [op |-> "get_month_name", ret |-> get_month_name(locale, month)]
    /\ UNCHANGED <<ctx, year, month, holVars, mainVars>>

\* parse_month(s) for a string of the command line, or for the name
\* get_month_name has just produced (of_month is then the month it names).
Text_parse_month ==
    /\ \/ /\ call.op = "none"
          /\ \E s \in MonthTokens :
                call' = [op |-> "parse_month", arg |-> s, of_month |-> None,
                         ret |-> parse_month(s)]
       \/ /\ call.op = "get_month_name"
          /\ call' = [op |-> "parse_month", arg |-> call.ret, of_month |-> Some(month),
                      ret |-> parse_month(call.ret)]
    /\ UNCHANGED <<ctx, year, month, holVars, mainVars>>

Text_center_text ==
    /\ call.op = "none"
    /\ \E text \in Texts, w \in FieldWidths :
          call' = [op |-> "center_text", arg |-> text, width |-> w,
                   ret |-> center_text(text, w)]
    /\ UNCHANGED <<ctx, year, month, holVars, mainVars>>

Text_format_month_header ==
    /\ call.op = "none"
    /\ \E w \in HeaderWidths, show_year \in BOOLEAN, color \in BOOLEAN :
          call' = [op |-> "format_month_header", width |-> w, show_year |-> show_year,
                   color |-> color,
                   ret |-> format_month_header(locale, year, month, w, show_year, color)]
    /\ UNCHANGED <<ctx, year, month, holVars, mainVars>>

TextNext ==
    \/ Text_get_month_name
    \/ Text_parse_month
    \/ Text_center_text
    \/ Text_format_month_header

SpecText == TextInit /\ [][TextNext]_vars

(***************************************************************************)
(* Properties of month-name parsing and of header centering.               *)
(***************************************************************************)
\* A string of decimal digits only.
NumericString(s) == s # <<>> /\ \A i \in DOMAIN s : IsDigit(s[i])

\* C13: parse_month gives back the month of every name get_month_name
\* produces (English, Russian, Ukrainian, Belarusian); every name of its table
\* parses to its month in any letter case; a string of digits parses to n
\* exactly when its value n is in 1..12.
C13_MonthNamesRoundTrip ==
    call.op = "parse_month" =>
        /\ call.of_month # None => call.ret = call.of_month
        /\ \A i \in DOMAIN month_names :
              to_lowercase(call.arg) = month_names[i][1] => call.ret = Some(month_names[i][2])
        /\ NumericString(call.arg) =>
              LET sig == StripZeros(call.arg)
                  n == IF Len(sig) <= 2 THEN DecimalValue(sig, 0) ELSE 100
              IN call.ret = IF n >= 1 /\ n <= 12 THEN Some(n) ELSE None

\* ceil(n / 2) and floor(n / 2) for a natural number n.
CeilHalf(n) == (n \div 2) + (n % 2)
FloorHalf(n) == n \div 2

\* C14: for a text of visual width W and a field width F >= W, center_text
\* returns ceil((F - W) / 2) spaces, the text and floor((F - W) / 2) spaces, a
\* string of visual width exactly F; for W > F it returns the text unchanged;
\* and format_month_header without color has width exactly 20 for every
\* month when the field width is 20.
C14_CenteredWidth ==
    /\ call.op = "center_text" =>
          LET W == width(call.arg)
              F == call.width
          IN /\ F >= W =>
                   /\ width(call.ret) = F
                   /\ call.ret = repeat_space(CeilHalf(F - W)) \o call.arg
                                    \o repeat_space(FloorHalf(F - W))
             /\ W > F => call.ret = call.arg
    /\ (call.op = "format_month_header" /\ ~call.color /\ call.width = 20) =>
          width(call.ret) = 20

\* A text with a wide character, three columns in two chars, centered in a
\* field of six: two spaces on the left, one on the right.
C14_Witness ==
    /\ call.op = "center_text"
    /\ call.arg = <<97, 26376>>
    /\ call.width = 6
    /\ call.ret = <<32, 32, 97, 26376, 32>>

(***************************************************************************)
(* Rendering (src/src/formatter.rs): day cells, the weekday header, the    *)
(* month grid of the row layout and the rows of the column layout.         *)
(***************************************************************************)
RECURSIVE Concat(_)
Concat(strings) == IF strings = <<>> THEN <<>> ELSE Head(strings) \o Concat(Tail(strings))

\* get_weekday_order
get_weekday_order(week_start) ==
    CASE week_start = "Mon" -> <<"Mon", "Tue", "Wed", "Thu", "Fri", "Sat", "Sun">>
      [] week_start = "Sun" -> <<"Sun", "Mon", "Tue", "Wed", "Thu", "Fri", "Sat">>

\* get_weekday_short_name: the first two chars of the locale's abbreviated
\* day name, en_US (Mo, Tu, We, Th, Fr, Sa, Su) and ru_RU
\* (Пн, Вт, Ср, Чт, Пт, Сб, Вс).
get_weekday_short_name(wd, loc) ==
    LET i == num_days_from_monday(wd) + 1
    IN IF loc = "ru_RU"
       THEN <<<<1055, 1085>>, <<1042, 1090>>, <<1057, 1088>>, <<1063, 1090>>, <<1055, 1090>>, <<1057, 1073>>, <<1042, 1089>>>>[i]
       ELSE <<<<77, 111>>, <<84, 117>>, <<87, 101>>, <<84, 104>>, <<70, 114>>, <<83, 97>>, <<83, 117>>>>[i]

\* The escape sequence of a highlight.
StyleColor(style) ==
    CASE style = "reverse" -> COLOR_REVERSE
      [] style = "teal" -> COLOR_TEAL
      [] style = "red" -> COLOR_RED

\* Whether the cell is the context's today.
IsTodayDate(c, y, m, day) == c.today = [y |-> y, m |-> m, d |-> day]

\* format_day(ctx, day, month, year, weekday, is_last) as text; code is what
\* get_holiday_code returns when it is called, which is with color only.
format_day_cell(c, day, m, y, wd, is_last, code) ==
    LET holiday_code == IF c.color THEN code ELSE 0
        day_str == pad_left(to_string(day), 2)
        style == format_day(c, IsTodayDate(c, y, m, day), wd, holiday_code)
        formatted == IF style = "plain" THEN day_str
                     ELSE StyleColor(style) \o day_str \o COLOR_RESET
    IN IF is_last THEN formatted ELSE formatted \o <<32>>

\* print_day_vertical: the highlight of the cell.
print_day_vertical_style(c, date_is_today, wd, holiday_code) ==
    LET is_today == c.color /\ date_is_today
        weekend == c.color /\ is_weekend(wd)
    IN IF is_today THEN "reverse"
       ELSE IF holiday_code = 2 THEN "teal"
       ELSE IF weekend \/ holiday_code = 1 \/ holiday_code = 8 THEN "red"
       ELSE "plain"

\* print_day_vertical(ctx, day, month, weekday) as text: three columns, the
\* padding outside the escape sequences.
print_day_vertical(c, day, m, y, wd, code) ==
    LET holiday_code == IF c.color THEN code ELSE 0
        day_str == to_string(day)
        padding == 3 - Len(day_str)
        style == print_day_vertical_style(c, IsTodayDate(c, y, m, day), wd, holiday_code)
    IN IF style = "plain" THEN pad_left(day_str, 3)
       ELSE repeat_space(padding) \o StyleColor(style) \o day_str \o COLOR_RESET

\* format_weekday_headers(ctx, week_numbers)
format_weekday_headers(c, loc, week_numbers) ==
    LET weekday_order == get_weekday_order(c.week_start)
        name(i) == get_weekday_short_name(weekday_order[i], loc)
        cell(i) == IF c.julian
                   THEN IF i - 1 < 6 THEN name(i) \o <<32, 32>> ELSE <<32>> \o name(i)
                   ELSE IF i - 1 < 6 THEN name(i) \o <<32>> ELSE name(i)
    IN (IF week_numbers THEN <<32, 32, 32>> ELSE <<>>)
          \o (IF c.julian THEN <<32>> ELSE <<>>)
          \o (IF c.color THEN COLOR_SAND_YELLOW ELSE <<>>)
          \o Concat([i \in 1..7 |-> cell(i)])
          \o (IF c.color THEN COLOR_RESET ELSE <<>>)

\* format_month_grid: the text of the cell day_idx (from 0) of a week row.
\* The contexts of the rendering specification have holidays off, so
\* get_holiday_code returns 0.
GridCell(c, mdata, day_idx) ==
    LET is_last == ((day_idx % 7) + 1) % 7 = 0
        cell == mdata.days[day_idx + 1]
    IN IF cell # None
       THEN IF c.julian
            THEN LET doy_str == pad_left(to_string(day_of_year(c, mdata.year, mdata.month,
                                                               cell[1])), 3)
                 IN IF is_last THEN doy_str ELSE doy_str \o <<32>>
            ELSE format_day_cell(c, cell[1], mdata.month, mdata.year,
                                 mdata.weekdays[day_idx + 1][1], is_last, 0)
       ELSE IF c.julian THEN (IF is_last THEN repeat_space(3) ELSE repeat_space(4))
       ELSE IF is_last THEN repeat_space(2)
       ELSE repeat_space(3)

\* format_month_grid: one week row, from its first cell day_idx (from 0).
GridWeekRow(c, mdata, day_idx) ==
    LET total_days == Len(mdata.days)
        cells == {d \in 0..6 : day_idx + d < total_days}
        numbered == {d \in cells : mdata.week_numbers[day_idx + d + 1] # None}
        week_wn == IF numbered = {} THEN None
                   ELSE mdata.week_numbers[day_idx + 1
                            + (CHOOSE d \in numbered : \A e \in numbered : d <= e)]
        prefix == IF ~c.week_numbers THEN <<>>
                  ELSE IF week_wn # None THEN pad_left(to_string(week_wn[1]), 2) \o <<32>>
                  ELSE repeat_space(3)
    IN prefix \o Concat([i \in 1..Cardinality(cells) |-> GridCell(c, mdata, day_idx + i - 1)])

\* format_month_grid: header_width
GridHeaderWidth(c) == IF c.julian THEN 27 ELSE IF c.week_numbers THEN 23 ELSE 20

\* format_month_grid(ctx, month): the month header, the weekday header and
\* the week rows; the loop over the six weeks ends early once the cells run
\* out.
format_month_grid(c, loc, mdata) ==
    LET total_days == Len(mdata.days)
        weeks == {w \in 0..5 : w = 0 \/ 7 * w < total_days}
    IN <<format_month_header(loc, mdata.year, mdata.month, GridHeaderWidth(c),
                             c.show_year_in_header, c.color),
         format_weekday_headers(c, loc, c.week_numbers)>>
          \o [i \in 1..Cardinality(weeks) |-> GridWeekRow(c, mdata, 7 * (i - 1))]

\* The header line of a month in the column layout, 18 chars wide, after four
\* spaces for the first month of the line.
VerticalHeader(c, loc, mdata, first) ==
    LET month_name == get_month_name(loc, mdata.month)
        header == IF c.show_year_in_header
                  THEN month_name \o <<32>> \o to_string(mdata.year) ELSE month_name
        padded_header == (IF first THEN repeat_space(4) ELSE <<>>)
                             \o pad_right(header, 18) \o repeat_space(c.gutter_width)
    IN IF c.color THEN COLOR_TEAL \o padded_header \o COLOR_RESET ELSE padded_header

\* The label of a row of the column layout.
VerticalLabel(c, loc, wd) ==
    IF c.color THEN COLOR_SAND_YELLOW \o get_weekday_short_name(wd, loc) \o COLOR_RESET
    ELSE get_weekday_short_name(wd, loc)

\* let day_idx = (*weekday as usize) + 7 * week; chrono's Weekday counts from
\* Monday = 0.
VerticalDayIdx(wd, week) == num_days_from_monday(wd) + 7 * week

\* The week slots of a row that lie in the grid.
VerticalSlots(mdata, wd) == {week \in 0..5 : VerticalDayIdx(wd, week) < Len(mdata.days)}

\* The days a row of the column layout prints for one month, in order: the
\* cell of each of its six week slots.
VerticalCells(mdata, wd) ==
    [i \in 1..Cardinality(VerticalSlots(mdata, wd)) |->
        mdata.days[VerticalDayIdx(wd, i - 1) + 1]]

\* The text of those cells: print_day_vertical for a day, three spaces for an
\* empty cell (holidays are off: get_holiday_code returns 0).
VerticalCellsText(c, mdata, wd) ==
    Concat([i \in 1..Cardinality(VerticalSlots(mdata, wd)) |->
               LET cell == mdata.days[VerticalDayIdx(wd, i - 1) + 1]
               IN IF cell # None
                  THEN print_day_vertical(c, cell[1], mdata.month, mdata.year, wd, 0)
                  ELSE repeat_space(3)])

\* print_month_vertical(ctx, month, is_first): the header line, then one row
\* per weekday of the week-start order; cells are the days the row prints.
print_month_vertical(c, loc, mdata, is_first) ==
    LET weekday_order == get_weekday_order(c.week_start)
    IN [header |-> VerticalHeader(c, loc, mdata, is_first),
        rows |-> [row \in 1..7 |->
                     [label |-> weekday_order[row],
                      cells |-> <<VerticalCells(mdata, weekday_order[row])>>,
                      text |-> VerticalLabel(c, loc, weekday_order[row])
                                  \o VerticalCellsText(c, mdata, weekday_order[row])]]]

\* print_three_months_vertical(ctx, months): the headers on one line, then
\* one row per weekday holding the week slots of every month, the months
\* after the first behind a gutter.
print_three_months_vertical(c, loc, months) ==
    LET weekday_order == get_weekday_order(c.week_start)
    IN [header |-> Concat([i \in 1..Len(months) |->
                              VerticalHeader(c, loc, months[i], i = 1)]),
        rows |-> [row \in 1..7 |->
                     [label |-> weekday_order[row],
                      cells |-> [i \in 1..Len(months) |->
                                    VerticalCells(months[i], weekday_order[row])],
                      text |-> VerticalLabel(c, loc, weekday_order[row])
                                  \o Concat([i \in 1..Len(months) |->
                                       (IF i > 1 THEN repeat_space(c.gutter_width) ELSE <<>>)
                                          \o VerticalCellsText(c, months[i],
                                                               weekday_order[row])])]]]

\* print_three_months: the previous, the target and the next month.
ThreeMonths(c, y, m) ==
    <<MonthData_new(c, IF m = 1 THEN y - 1 ELSE y, IF m = 1 THEN 12 ELSE m - 1),
      MonthData_new(c, y, m),
      MonthData_new(c, IF m = 12 THEN y + 1 ELSE y, IF m = 12 THEN 1 ELSE m + 1)>>

\* let mut month = start_month + i; while month > 12 { month -= 12; year += 1 }
NthMonth(start_year, start_month, i) ==
    [year |-> start_year + ((start_month + i - 1) \div 12),
     month |-> ((start_month + i - 1) % 12) + 1]

\* The start of the span with half the count, not half of count - 1, before
\* the target.
SpanStart_half_of_count(c, start_year, start_month, count) ==
    IF c.span /\ count > 1
    THEN LET total_months == start_year * 12 + (start_month - 1)
             half == count \div 2
             start == total_months - half
         IN [year |-> start \div 12, month |-> (start % 12) + 1]
    ELSE [year |-> start_year, month |-> start_month]

\* print_months_count: (actual_start_year, actual_start_month); div_euclid
\* and rem_euclid by 12 are the floor division and the modulus.
SpanStart(c, start_year, start_month, count) ==
    IF c.span /\ count > 1
    THEN LET total_months == start_year * 12 + (start_month - 1)
             half == (count - 1) \div 2
             start == total_months - half
         IN [year |-> start \div 12, month |-> (start % 12) + 1]
    ELSE [year |-> start_year, month |-> start_month]

\* print_months_count(ctx, start_year, start_month, count): the (year, month)
\* of the grids it builds and prints, in order.
print_months_count(c, start_year, start_month, count) ==
    LET actual == SpanStart(c, start_year, start_month, count)
    IN [i \in 1..count |-> NthMonth(actual.year, actual.month, i - 1)]

\* print_twelve_months(ctx, start_year, start_month): the (year, month) of the
\* twelve grids it builds and prints, in order.
print_twelve_months(c, start_year, start_month) ==
    [i \in 1..12 |-> NthMonth(start_year, start_month, i - 1)]

(***************************************************************************)
(* The rendering specification: a context, a locale and a target month are *)
(* drawn, and one rendering operation is applied.                          *)
(***************************************************************************)
\* print_months_count is given the counts 0..MaxCount.
MaxCount == 14

RenderYears == {1, 1752, 2024, 9999}
RenderLocales == {"en_US", "ru_RU"}

\* The holiday codes get_holiday_code is taken to return for a cell: working
\* day, weekend, shortened day, an unknown digit, public holiday.
CellCodes == {0, 1, 2, 3, 8}

\* The days of the cells that are styled: a day that is not today, and today.
CellDays == {9, 15}

RenderToday == [y |-> 2024, m |-> 1, d |-> 15]

\* Contexts as CalContext::new makes them: the gutter is 1 in the column
\* layout, else GUTTER_WIDTH_REGULAR.
RenderContexts ==
    {c \in [reform_year : {REFORM_YEAR_GB},
            week_start : {"Mon", "Sun"},
            julian : BOOLEAN,
            week_numbers : BOOLEAN,
            week_type : {"Iso"},
            color : BOOLEAN,
            vertical : BOOLEAN,
            today : {RenderToday},
            show_year_in_header : {TRUE},
            gutter_width : {1, 2},
            columns : {[mode |-> "Auto", n |-> 0]},
            span : BOOLEAN,
            holidays : {FALSE}] :
        c.gutter_width = IF c.vertical THEN 1 ELSE 2}

RenderInit ==
    /\ ctx \in RenderContexts
    /\ year \in RenderYears
    /\ month \in Months
    /\ call = NoCall
    /\ HolidayStatics
    /\ args = NoArgs
    /\ proc = IdleProc
    /\ locale \in RenderLocales

\* format_day for a cell of the row layout; lookups counts the calls of
\* get_holiday_code it makes.
Render_format_day ==
    /\ call.op = "none"
    /\ ~ctx.vertical
    /\ \E day \in CellDays, wd \in CellWeekdays, is_last \in BOOLEAN, code \in CellCodes :
          call' = [op |-> "format_day", day |-> day, weekday |-> wd, code |-> code,
                   lookups |-> IF ctx.color THEN 1 ELSE 0,
                   ret |-> format_day_cell(ctx, day, month, year, wd, is_last, code)]
    /\ UNCHANGED <<ctx, year, month, holVars, mainVars>>

\* print_day_vertical for a cell of the column layout.
Render_print_day_vertical ==
    /\ call.op = "none"
    /\ ctx.vertical
    /\ \E day \in CellDays, wd \in CellWeekdays, code \in CellCodes :
          call' = [op |-> "print_day_vertical", day |-> day, weekday |-> wd, code |-> code,
                   lookups |-> IF ctx.color THEN 1 ELSE 0,
                   ret |-> print_day_vertical(ctx, day, month, year, wd, code)]
    /\ UNCHANGED <<ctx, year, month, holVars, mainVars>>

Render_format_weekday_headers ==
    /\ call.op = "none"
    /\ \E week_numbers \in BOOLEAN :
          call' = [op |-> "format_weekday_headers", week_numbers |-> week_numbers,
                   ret |-> format_weekday_headers(ctx, locale, week_numbers)]
    /\ UNCHANGED <<ctx, year, month, holVars, mainVars>>

\* print_month, row layout: format_month_grid(ctx, &MonthData::new(ctx, year, month))
Render_format_month_grid ==
    /\ call.op = "none"
    /\ ~ctx.vertical
    /\ ~MonthData_new(ctx, year, month).panicked
    /\ call' = [op |-> "format_month_grid",
                ret |-> format_month_grid(ctx, locale, MonthData_new(ctx, year, month))]
    /\ UNCHANGED <<ctx, year, month, holVars, mainVars>>

\* print_month, column layout: print_month_vertical(ctx, &month_data, true)
Render_print_month_vertical ==
    /\ call.op = "none"
    /\ ctx.vertical
    /\ ~MonthData_new(ctx, year, month).panicked
    /\ call' = [op |-> "print_month_vertical", months |-> <<MonthData_new(ctx, year, month)>>,
                ret |-> print_month_vertical(ctx, locale, MonthData_new(ctx, year, month),
                                             TRUE)]
    /\ UNCHANGED <<ctx, year, month, holVars, mainVars>>

\* print_three_months, column layout: print_three_months_vertical(ctx, &months)
Render_print_three_months_vertical ==
    /\ call.op = "none"
    /\ ctx.vertical
    /\ \A i \in 1..3 : ~ThreeMonths(ctx, year, month)[i].panicked
    /\ call' = [op |-> "print_three_months_vertical", months |-> ThreeMonths(ctx, year, month),
                ret |-> print_three_months_vertical(ctx, locale,
                                                    ThreeMonths(ctx, year, month))]
    /\ UNCHANGED <<ctx, year, month, holVars, mainVars>>

Render_print_months_count ==
    /\ call.op = "none"
    /\ \E count \in 0..MaxCount :
          call' = [op |-> "print_months_count", count |-> count,
                   ret |-> print_months_count(ctx, year, month, count)]
    /\ UNCHANGED <<ctx, year, month, holVars, mainVars>>

Render_print_twelve_months ==
    /\ call.op = "none"
    /\ call' = [op |-> "print_twelve_months", ret |-> print_twelve_months(ctx, year, month)]
    /\ UNCHANGED <<ctx, year, month, holVars, mainVars>>

RenderNext ==
    \/ Render_format_day
    \/ Render_print_day_vertical
    \/ Render_format_weekday_headers
    \/ Render_format_month_grid
    \/ Render_print_month_vertical
    \/ Render_print_three_months_vertical
    \/ Render_print_months_count
    \/ Render_print_twelve_months

SpecRender == RenderInit /\ [][RenderNext]_vars

(***************************************************************************)
(* Highlight precedence of a day cell.                                     *)
(***************************************************************************)
\* The number of escape characters (ESC, 27) in a text.
EscCount(text) == Cardinality({i \in 1..Len(text) : text[i] = 27})

\* Whether the text is: padding, the escape sequence esc, padding, the day
\* number, the reset sequence, and at most one space.
Highlighted(text, esc, day) ==
    \E lead \in 0..2, inner \in 0..1, trail \in 0..1 :
        text = repeat_space(lead) \o esc \o repeat_space(inner) \o to_string(day)
                  \o COLOR_RESET \o repeat_space(trail)

\* The highlight the precedence gives a cell: the escape sequence, or None.
RankedHighlight(date_is_today, wd, code) ==
    IF date_is_today THEN Some(COLOR_REVERSE)
    ELSE IF code = 2 THEN Some(COLOR_TEAL)
    ELSE IF wd \in {"Sat", "Sun"} \/ code \in {1, 8} THEN Some(COLOR_RED)
    ELSE None

\* C17: with color, a day cell of the row layout (format_day) and of the
\* column layout (print_day_vertical) carries exactly the highlight of the
\* highest-ranked condition that holds, today (reverse video) > holiday code
\* 2 (teal) > Saturday/Sunday or holiday code 1 or 8 (red) > none, and
\* nothing else but the reset after it; without color the cell carries no
\* escape sequence and no holiday lookup is made.
C17_HighlightPrecedence ==
    call.op \in {"format_day", "print_day_vertical"} =>
        LET want == RankedHighlight(ctx.today = [y |-> year, m |-> month, d |-> call.day],
                                    call.weekday, call.code)
        IN IF ctx.color
           THEN /\ call.lookups = 1
                /\ IF want = None
                   THEN EscCount(call.ret) = 0
                   ELSE /\ EscCount(call.ret) = 2
                        /\ Highlighted(call.ret, want[1], call.day)
           ELSE /\ EscCount(call.ret) = 0
                /\ call.lookups = 0

\* Today, a Saturday with holiday code 2, in the column layout: the cell is
\* in reverse video only.
C17_Witness ==
    /\ call.op = "print_day_vertical"
    /\ ctx.color
    /\ year = 2024 /\ month = 1 /\ call.day = 15
    /\ call.weekday = "Sat" /\ call.code = 2
    /\ call.ret = <<32>> \o COLOR_REVERSE \o <<49, 53>> \o COLOR_RESET

(***************************************************************************)
(* The months of the N-months and the twelve-months modes.                 *)
(***************************************************************************)
\* The calendar month after and before a month.
MonthAfter(g) ==
    IF g.month = 12 THEN [year |-> g.year + 1, month |-> 1]
    ELSE [year |-> g.year, month |-> g.month + 1]

MonthBefore(g) ==
    IF g.month = 1 THEN [year |-> g.year - 1, month |-> 12]
    ELSE [year |-> g.year, month |-> g.month - 1]

RECURSIVE MonthsBack(_, _)
MonthsBack(g, k) == IF k = 0 THEN g ELSE MonthsBack(MonthBefore(g), k - 1)

\* Each grid is the month after the grid before it.
Consecutive(grids) == \A i \in 1..(Len(grids) - 1) : grids[i + 1] = MonthAfter(grids[i])

\* C18: print_months_count builds exactly count grids and print_twelve_months
\* exactly 12; the first is the target month, or with span and count > 1 the
\* target month moved back by floor((count - 1) / 2) months; every later grid
\* is the calendar month after the one before it, January of the next year
\* after December.
C18_ConsecutiveMonths ==
    LET target == [year |-> year, month |-> month]
    IN /\ call.op = "print_months_count" =>
            /\ Len(call.ret) = call.count
            /\ call.count >= 1 =>
                  call.ret[1] = IF ctx.span /\ call.count > 1
                                THEN MonthsBack(target, (call.count - 1) \div 2)
                                ELSE target
            /\ Consecutive(call.ret)
       /\ call.op = "print_twelve_months" =>
            /\ Len(call.ret) = 12
            /\ call.ret[1] = target
            /\ Consecutive(call.ret)

\* Four months spanned around January 2024: December 2023 to March 2024.
C18_Witness ==
    /\ call.op = "print_months_count"
    /\ ctx.span /\ call.count = 4
    /\ year = 2024 /\ month = 1
    /\ call.ret = <<[year |-> 2023, month |-> 12], [year |-> 2024, month |-> 1],
                    [year |-> 2024, month |-> 2], [year |-> 2024, month |-> 3]>>

(***************************************************************************)
(* The column layout.                                                      *)
(***************************************************************************)
\* The weekday of the cell idx (from 0) of a month grid: the grid's columns
\* are the weekdays in week-start order.
CellWeekday(c, idx) == get_weekday_order(c.week_start)[(idx % 7) + 1]

\* The days of month i that the row prints, as a set, and the populated days
\* of the month grid.
PrintedDays(row, i) == {row.cells[i][k][1] : k \in {j \in 1..Len(row.cells[i]) : row.cells[i][j] # None}}

PopulatedDays(mdata) == {mdata.days[k][1] : k \in {j \in 1..Len(mdata.days) : mdata.days[j] # None}}

\* The cell of the grid that holds a day.
CellOf(mdata, day) == CHOOSE idx \in 0..(Len(mdata.days) - 1) : mdata.days[idx + 1] = Some(day)

\* C19: in the column layout, for the Monday and the Sunday week start, there
\* is one row per weekday in week-start order, every day printed in the row
\* labelled W is in a column of weekday W of its month grid, and each
\* populated day of a month is printed exactly once.
C19_VerticalRows ==
    call.op \in {"print_month_vertical", "print_three_months_vertical"} =>
        /\ Len(call.ret.rows) = 7
        /\ \A r \in 1..7 : call.ret.rows[r].label = WeekOrder(ctx.week_start)[r]
        /\ \A i \in 1..Len(call.months) :
              /\ \A r \in 1..7 : \A day \in PrintedDays(call.ret.rows[r], i) :
                    CellWeekday(ctx, CellOf(call.months[i], day)) = call.ret.rows[r].label
              /\ \A day \in PopulatedDays(call.months[i]) :
                    Cardinality({<<r, k>> \in (1..7) \X (1..6) :
                                    /\ k <= Len(call.ret.rows[r].cells[i])
                                    /\ call.ret.rows[r].cells[i][k] = Some(day)}) = 1

(***************************************************************************)
(* The widths of the lines of a month grid.                                *)
(***************************************************************************)
\* The fixed width of a grid: 20 by default, 23 with week numbers, 27 with
\* Julian day numbers.
FixedWidth(c) == IF c.julian THEN 27 ELSE IF c.week_numbers THEN 23 ELSE 20

\* C20: without color, format_month_grid returns 8 lines, the month header,
\* the weekday header and six week rows, each of the visual width of the
\* grid: 20 by default, 23 with week numbers, 27 with Julian day numbers.
C20_GridLineWidths ==
    (call.op = "format_month_grid" /\ ~ctx.color) =>
        /\ Len(call.ret) = 8
        /\ \A i \in 1..Len(call.ret) : width(call.ret[i]) = FixedWidth(ctx)

(***************************************************************************)
(* The program: main and run. args are the parsed command-line arguments,  *)
(* proc the process: pc its position in run, new and date the Results of   *)
(* CalContext::new and get_display_date, stdout the lines printed, stderr  *)
(* the error line, status the exit status.                                 *)
(***************************************************************************)
GUTTER_WIDTH_REGULAR == 2
GUTTER_WIDTH_YEAR == 3
COLOR_ENABLED_BY_DEFAULT == TRUE

\* The string literals of args.rs and main.rs:
\*   columns_invalid: "Invalid columns value: "
\*   columns_positive: "Columns must be positive"
\*   exclusive: "Options -y, -Y, and -n are mutually exclusive"
\*   year_value: "Invalid year value: "
\*   must_be_year: " (must be 1-9999)"
\*   argument: "Invalid argument: "
\*   month: "Invalid month: "
\*   year: "Invalid year: "
\*   day: "Invalid day: "
\*   must_be_day: " (must be 1-31)"
\*   combination: "Invalid argument combination"
\*   cal: "cal: "
\*   auto: "auto"
\*   mutually_exclusive: "mutually exclusive"
Messages ==
    [columns_invalid |-> <<73, 110, 118, 97, 108, 105, 100, 32, 99, 111, 108, 117, 109, 110, 115, 32, 118, 97, 108, 117, 101, 58, 32>>,
     columns_positive |-> <<67, 111, 108, 117, 109, 110, 115, 32, 109, 117, 115, 116, 32, 98, 101, 32, 112, 111, 115, 105, 116, 105, 118, 101>>,
     exclusive |-> <<79, 112, 116, 105, 111, 110, 115, 32, 45, 121, 44, 32, 45, 89, 44, 32, 97, 110, 100, 32, 45, 110, 32, 97, 114, 101, 32, 109, 117, 116, 117, 97, 108, 108, 121, 32, 101, 120, 99, 108, 117, 115, 105, 118, 101>>,
     year_value |-> <<73, 110, 118, 97, 108, 105, 100, 32, 121, 101, 97, 114, 32, 118, 97, 108, 117, 101, 58, 32>>,
     must_be_year |-> <<32, 40, 109, 117, 115, 116, 32, 98, 101, 32, 49, 45, 57, 57, 57, 57, 41>>,
     argument |-> <<73, 110, 118, 97, 108, 105, 100, 32, 97, 114, 103, 117, 109, 101, 110, 116, 58, 32>>,
     month |-> <<73, 110, 118, 97, 108, 105, 100, 32, 109, 111, 110, 116, 104, 58, 32>>,
     year |-> <<73, 110, 118, 97, 108, 105, 100, 32, 121, 101, 97, 114, 58, 32>>,
     day |-> <<73, 110, 118, 97, 108, 105, 100, 32, 100, 97, 121, 58, 32>>,
     must_be_day |-> <<32, 40, 109, 117, 115, 116, 32, 98, 101, 32, 49, 45, 51, 49, 41>>,
     combination |-> <<73, 110, 118, 97, 108, 105, 100, 32, 97, 114, 103, 117, 109, 101, 110, 116, 32, 99, 111, 109, 98, 105, 110, 97, 116, 105, 111, 110>>,
     cal |-> <<99, 97, 108, 58, 32>>,
     auto |-> <<97, 117, 116, 111>>,
     mutually_exclusive |-> <<109, 117, 116, 117, 97, 108, 108, 121, 32, 101, 120, 99, 108, 117, 115, 105, 118, 101>>]

\* Result<T, String>: Ok(value) and Err(message).
Ok(value) == [ok |-> TRUE, value |-> value, err |-> <<>>]
Err(message) == [ok |-> FALSE, value |-> None, err |-> message]

\* str::contains
Contains(text, sub) ==
    \E i \in 0..(Len(text) - Len(sub)) : SubSeq(text, i + 1, i + Len(sub)) = sub

\* The count of display modes that ignores -n.
mode_count_without_months(a) ==
    Cardinality({i \in 1..2 : <<a.year, a.twelve_months>>[i]})

\* let mode_count = [args.year, args.twelve_months, args.months_count.is_some()]
\*     .iter().filter(|&&x| x).count();
mode_count(a) ==
    Cardinality({i \in 1..3 : <<a.year, a.twelve_months, a.months_count # None>>[i]})

\* CalContext::new(args), with the date get_today_date returns and whether
\* standard output is a terminal.
CalContext_new(a, today, is_terminal) ==
    LET color == ~a.color /\ COLOR_ENABLED_BY_DEFAULT /\ is_terminal
        n == IF a.columns = None THEN None ELSE parse_u32(a.columns[1])
        year_n == IF a.year_arg = None THEN None ELSE parse_i32(a.year_arg[1])
    IN IF a.columns # None /\ a.columns[1] # Messages.auto /\ n = None
       THEN Err(Messages.columns_invalid \o a.columns[1])
       ELSE IF a.columns # None /\ a.columns[1] # Messages.auto /\ n[1] = 0
       THEN Err(Messages.columns_positive)
       ELSE IF mode_count(a) > 1
       THEN Err(Messages.exclusive)
       ELSE IF a.year_arg # None /\ year_n = None
       THEN Err(Messages.year_value \o a.year_arg[1])
       ELSE IF a.year_arg # None /\ ~(year_n[1] >= 1 /\ year_n[1] <= 9999)
       THEN Err(Messages.year_value \o to_string(year_n[1]) \o Messages.must_be_year)
       ELSE Ok([reform_year |-> IF a.iso THEN reform_year("Iso") ELSE reform_year(a.reform),
                week_start |-> IF a.sunday THEN "Sun" ELSE "Mon",
                julian |-> a.julian,
                week_numbers |-> a.week_numbers,
                week_type |-> a.week_type,
                color |-> color,
                vertical |-> a.vertical,
                today |-> today,
                show_year_in_header |-> TRUE,
                gutter_width |-> IF a.vertical THEN 1 ELSE GUTTER_WIDTH_REGULAR,
                columns |-> IF a.columns = None \/ a.columns[1] = Messages.auto
                            THEN [mode |-> "Auto", n |-> 0]
                            ELSE [mode |-> "Fixed", n |-> n[1]],
                span |-> a.span,
                holidays |-> a.holidays])

\* get_display_date(args): Ok((year, month, day)) or Err(message).
get_display_date(a, today) ==
    LET date(y, m, d) == Ok([year |-> y, month |-> m, day |-> d])
    IN CASE a.day_arg # None /\ a.month_arg = None /\ a.year_arg = None ->
              LET val == a.day_arg[1]
                  num == parse_i32(val)
                  named == parse_month(val)
              IN IF num # None /\ num[1] >= 1000 /\ num[1] <= 9999
                 THEN date(num[1], today.m, None)
                 ELSE IF num # None /\ num[1] >= 1 /\ num[1] <= 12
                 THEN date(today.y, num[1], None)
                 ELSE IF named # None THEN date(today.y, named[1], None)
                 ELSE Err(Messages.argument \o val)
         [] a.day_arg # None /\ a.month_arg # None /\ a.year_arg = None ->
              LET m == parse_month(a.day_arg[1])
                  y == parse_i32(a.month_arg[1])
              IN IF m = None THEN Err(Messages.month \o a.day_arg[1])
                 ELSE IF y = None THEN Err(Messages.year \o a.month_arg[1])
                 ELSE IF ~(y[1] >= 1 /\ y[1] <= 9999)
                 THEN Err(Messages.year \o to_string(y[1]) \o Messages.must_be_year)
                 ELSE date(y[1], m[1], None)
         [] a.day_arg # None /\ a.month_arg # None /\ a.year_arg # None ->
              LET d == parse_u32(a.day_arg[1])
                  m == parse_month(a.month_arg[1])
                  y == parse_i32(a.year_arg[1])
              IN IF d = None THEN Err(Messages.day \o a.day_arg[1])
                 ELSE IF ~(d[1] >= 1 /\ d[1] <= 31)
                 THEN Err(Messages.day \o to_string(d[1]) \o Messages.must_be_day)
                 ELSE IF m = None THEN Err(Messages.month \o a.month_arg[1])
                 ELSE IF y = None THEN Err(Messages.year \o a.year_arg[1])
                 ELSE IF ~(y[1] >= 1 /\ y[1] <= 9999)
                 THEN Err(Messages.year \o to_string(y[1]) \o Messages.must_be_year)
                 ELSE date(y[1], m[1], Some(d[1]))
         [] a.day_arg = None /\ a.month_arg = None /\ a.year_arg = None ->
              date(today.y, today.m, None)
         [] OTHER -> Err(Messages.combination)

\* months_per_row, with the terminal width get_terminal_width returns (None
\* when there is no terminal).
months_per_row(c, term_width) ==
    IF c.columns.mode = "Fixed" THEN c.columns.n
    ELSE IF term_width = None THEN 3
    ELSE LET per_row == term_width[1] \div (20 + c.gutter_width)
         IN IF per_row < 1 THEN 1 ELSE IF per_row > 3 THEN 3 ELSE per_row

\* slice::chunks(n) for n > 0
RECURSIVE chunks(_, _)
chunks(seq, n) ==
    IF seq = <<>> THEN <<>>
    ELSE IF Len(seq) <= n THEN <<seq>>
    ELSE <<SubSeq(seq, 1, n)>> \o chunks(SubSeq(seq, n + 1, Len(seq)), n)

\* print_months_side_by_side(ctx, months): the lines printed.
print_months_side_by_side(c, loc, months) ==
    LET grids == [i \in 1..Len(months) |-> format_month_grid(c, loc, months[i])]
        heights == {Len(grids[i]) : i \in 1..Len(grids)}
        max_height == IF heights = {} THEN 0 ELSE CHOOSE h \in heights : \A k \in heights : k <= h
        month_width == IF c.julian THEN 27 ELSE IF c.week_numbers THEN 23 ELSE 20
        piece(row, i) ==
            IF row <= Len(grids[i])
            THEN grids[i][row]
                    \o repeat_space(saturating_sub(month_width, width(grids[i][row])))
                    \o (IF i < Len(grids) THEN repeat_space(c.gutter_width) ELSE <<>>)
            ELSE repeat_space(IF i < Len(grids) THEN month_width + c.gutter_width
                              ELSE month_width)
    IN [row \in 1..max_height |-> Concat([i \in 1..Len(grids) |-> piece(row, i)])]

\* The lines of a column layout: the header line and the seven rows.
VerticalLines(v) == <<v.header>> \o [r \in 1..7 |-> v.rows[r].text]

\* Concat over the sequences of lines.
RECURSIVE Lines(_)
Lines(blocks) == IF blocks = <<>> THEN <<>> ELSE Head(blocks) \o Lines(Tail(blocks))

\* print_month(ctx, year, month): the lines printed.
print_month(c, loc, y, m) ==
    IF c.vertical THEN VerticalLines(print_month_vertical(c, loc, MonthData_new(c, y, m), TRUE))
    ELSE format_month_grid(c, loc, MonthData_new(c, y, m))

\* print_three_months(ctx, year, month): the lines printed.
print_three_months(c, loc, y, m) ==
    IF c.vertical
    THEN VerticalLines(print_three_months_vertical(c, loc, ThreeMonths(c, y, m))) \o <<<<>>>>
    ELSE print_months_side_by_side(c, loc, ThreeMonths(c, y, m))

\* print_year(ctx, year): the lines printed.
print_year(c, loc, y) ==
    LET month_ctx == [c EXCEPT !.show_year_in_header = FALSE,
                               !.gutter_width = IF c.vertical THEN 1 ELSE GUTTER_WIDTH_YEAR]
        month_rows == [month_row \in 1..4 |->
                          [col \in 1..3 |->
                              MonthData_new(month_ctx, y, (month_row - 1) * 3 + col)]]
    IN <<center_text(to_string(y), IF c.vertical THEN 62 ELSE 66), <<>>>>
          \o Lines([r \in 1..4 |->
                 IF c.vertical
                 THEN VerticalLines(print_three_months_vertical(month_ctx, loc, month_rows[r]))
                         \o <<<<>>>>
                 ELSE print_months_side_by_side(month_ctx, loc, month_rows[r])])

\* The lines print_twelve_months and print_months_count print for the months
\* they build: one column layout and a blank line per month, or the months
\* side by side in rows of per_row.
PrintMonths(c, loc, months, per_row) ==
    LET grids == [i \in 1..Len(months) |-> MonthData_new(c, months[i].year, months[i].month)]
    IN IF c.vertical
       THEN Lines([i \in 1..Len(grids) |->
                      VerticalLines(print_month_vertical(c, loc, grids[i], TRUE)) \o <<<<>>>>])
       ELSE Lines([k \in 1..Len(chunks(grids, per_row)) |->
                      print_months_side_by_side(c, loc, chunks(grids, per_row)[k])])

\* main: the exit status is 0 whatever run returns.
exit_status_always_success(result_ok) == 0

\* main: std::process::exit(1) if run returns an error, else the status is 0.
exit_status(result_ok) == IF result_ok THEN 0 ELSE 1

\* The positional arguments (day_arg, month_arg, year_arg) of the runs.
Positionals ==
    {<<None, None, None>>,
     <<Some(<<50, 48, 50, 52>>), None, None>>, <<Some(<<50>>), None, None>>,
     <<Some(<<49, 51>>), None, None>>, <<Some(<<102, 101, 98>>), None, None>>, <<Some(<<120, 121, 122>>), None, None>>,
     <<Some(<<50>>), Some(<<50, 48, 50, 52>>), None>>, <<Some(<<50>>), Some(<<48>>), None>>,
     <<Some(<<120>>), Some(<<50, 48, 50, 52>>), None>>,
     <<Some(<<49, 53>>), Some(<<50>>), Some(<<50, 48, 50, 52>>)>>, <<Some(<<51, 50>>), Some(<<50>>), Some(<<50, 48, 50, 52>>)>>,
     <<Some(<<49, 53>>), Some(<<122, 122>>), Some(<<50, 48, 50, 52>>)>>, <<Some(<<49, 53>>), Some(<<50>>), Some(<<49, 48, 48, 48, 48>>)>>,
     <<None, Some(<<50>>), None>>}

\* The values of -c: absent, auto, 0, 2, not a number, a number above
\* u32::MAX.
ColumnValues == {None, Some(Messages.auto), Some(<<48>>), Some(<<50>>), Some(<<120>>), Some(<<52, 50, 57, 52, 57, 54, 55, 50, 57, 54>>)}

\* The parsed arguments of the runs; the options that are not listed vary
\* nothing that run decides on and have their defaults.
MainArgs ==
    {[sunday |-> FALSE, julian |-> FALSE, week_numbers |-> FALSE, week_type |-> "Iso",
      year |-> f.year, twelve_months |-> f.twelve_months, three_months |-> f.three_months,
      months_count |-> f.months_count, span |-> FALSE, reform |-> "Year1752", iso |-> FALSE,
      day_arg |-> p[1], month_arg |-> p[2], year_arg |-> p[3],
      color |-> FALSE, columns |-> f.columns, vertical |-> f.vertical, holidays |-> FALSE] :
        f \in [year : BOOLEAN, twelve_months : BOOLEAN, three_months : BOOLEAN,
               months_count : {None, Some(0), Some(2)}, columns : ColumnValues,
               vertical : BOOLEAN],
        p \in Positionals}

\* The terminal widths get_terminal_width returns: none, one month, many.
TerminalWidths == {None, Some(30), Some(80)}

MainInit ==
    /\ args \in MainArgs
    /\ proc = [IdleProc EXCEPT !.pc = "run"]
    /\ locale = DefaultLocale
    /\ ctx = None
    /\ year = RenderToday.y
    /\ month = RenderToday.m
    /\ call = NoCall
    /\ HolidayStatics

\* run: let ctx = CalContext::new(args)?;
Run_CalContext_new ==
    /\ proc.pc = "run"
    /\ \E is_terminal \in BOOLEAN :
          LET result == CalContext_new(args, RenderToday, is_terminal)
          IN /\ proc' = [proc EXCEPT !.pc = IF result.ok THEN "get_display_date" ELSE "err",
                                     !.today = Some(RenderToday),
                                     !.new = Some([ok |-> result.ok, err |-> result.err])]
             /\ ctx' = IF result.ok THEN result.value ELSE ctx
    /\ UNCHANGED <<year, month, calVars, holVars, args, locale>>

\* run: let (year, month, _day) = get_display_date(args)?;
Run_get_display_date ==
    /\ proc.pc = "get_display_date"
    /\ LET result == get_display_date(args, RenderToday)
       IN /\ proc' = [proc EXCEPT !.pc = IF result.ok THEN "print" ELSE "err",
                                  !.date = Some([ok |-> result.ok, err |-> result.err])]
          /\ year' = IF result.ok THEN result.value.year ELSE year
          /\ month' = IF result.ok THEN result.value.month ELSE month
    /\ UNCHANGED <<ctx, calVars, holVars, args, locale>>

\* run: if args.year { print_year(&ctx, year); }
Run_print_year ==
    /\ proc.pc = "print"
    /\ args.year
    /\ proc' = [proc EXCEPT !.pc = "ok", !.stdout = print_year(ctx, locale, year)]
    /\ UNCHANGED <<ctx, year, month, calVars, holVars, args, locale>>

\* run: else if args.twelve_months { print_twelve_months(&ctx, year, month); }
Run_print_twelve_months ==
    /\ proc.pc = "print"
    /\ ~args.year /\ args.twelve_months
    /\ proc' = [proc EXCEPT
                  !.pc = "ok",
                  !.stdout = PrintMonths([ctx EXCEPT !.show_year_in_header = TRUE,
                                                     !.gutter_width = GUTTER_WIDTH_YEAR],
                                         locale, print_twelve_months(ctx, year, month), 3)]
    /\ UNCHANGED <<ctx, year, month, calVars, holVars, args, locale>>

\* run: else if args.three_months { print_three_months(&ctx, year, month); }
Run_print_three_months ==
    /\ proc.pc = "print"
    /\ ~args.year /\ ~args.twelve_months /\ args.three_months
    /\ proc' = [proc EXCEPT !.pc = "ok", !.stdout = print_three_months(ctx, locale, year, month)]
    /\ UNCHANGED <<ctx, year, month, calVars, holVars, args, locale>>

\* run: else if let Some(count) = args.months_count {
\*          print_months_count(&ctx, year, month, count)?; }
Run_print_months_count ==
    /\ proc.pc = "print"
    /\ ~args.year /\ ~args.twelve_months /\ ~args.three_months /\ args.months_count # None
    /\ \E term_width \in TerminalWidths :
          proc' = [proc EXCEPT
                     !.pc = "ok",
                     !.stdout = PrintMonths(ctx, locale,
                                            print_months_count(ctx, year, month,
                                                               args.months_count[1]),
                                            months_per_row(ctx, term_width))]
    /\ UNCHANGED <<ctx, year, month, calVars, holVars, args, locale>>

\* run: else { print_month(&ctx, year, month); }
Run_print_month ==
    /\ proc.pc = "print"
    /\ ~args.year /\ ~args.twelve_months /\ ~args.three_months /\ args.months_count = None
    /\ proc' = [proc EXCEPT !.pc = "ok", !.stdout = print_month(ctx, locale, year, month)]
    /\ UNCHANGED <<ctx, year, month, calVars, holVars, args, locale>>

\* main: if let Err(e) = run(&args) { eprintln!("cal: {}", e); exit(1); }
Main_exit_error ==
    /\ proc.pc = "err"
    /\ LET failed == IF proc.new[1].ok THEN proc.date[1] ELSE proc.new[1]
       IN proc' = [proc EXCEPT !.pc = "exited",
                               !.stderr = Some(Messages.cal \o failed.err),
                               !.status = Some(exit_status(FALSE))]
    /\ UNCHANGED <<ctx, year, month, calVars, holVars, args, locale>>

\* main: run returned Ok(()), main returns.
Main_return ==
    /\ proc.pc = "ok"
    /\ proc' = [proc EXCEPT !.pc = "exited", !.status = Some(exit_status(TRUE))]
    /\ UNCHANGED <<ctx, year, month, calVars, holVars, args, locale>>

MainNext ==
    \/ Run_CalContext_new
    \/ Run_get_display_date
    \/ Run_print_year
    \/ Run_print_twelve_months
    \/ Run_print_three_months
    \/ Run_print_months_count
    \/ Run_print_month
    \/ Main_exit_error
    \/ Main_return

SpecMain == MainInit /\ [][MainNext]_vars

(***************************************************************************)
(* Validation before rendering.                                            *)
(***************************************************************************)
\* CalContext::new or get_display_date has returned an error.
ValidationFailed ==
    \/ proc.new # None /\ ~proc.new[1].ok
    \/ proc.date # None /\ ~proc.date[1].ok

\* Both validations have returned Ok.
Validated ==
    /\ proc.new # None /\ proc.new[1].ok
    /\ proc.date # None /\ proc.date[1].ok

\* The process has exited with a nonzero status.
ExitedNonzero == proc.pc = "exited" /\ proc.status # None /\ proc.status[1] # 0

\* C11: in every run, CalContext::new and get_display_date complete before
\* any rendering: calendar text is on standard output only after both have
\* returned Ok; if either returns an error, nothing at all is written to
\* standard output, and the process runs on (it is never stuck short of its
\* exit) and exits with a nonzero status.
C11_ValidationBeforeRendering ==
    /\ proc.stdout # <<>> => Validated
    /\ ValidationFailed =>
          /\ proc.stdout = <<>>
          /\ proc.pc = "exited" => ExitedNonzero
          /\ proc.pc # "exited" => ENABLED MainNext

\* cal 15 zz 2024: the context is built, the month token does not parse, the
\* process has exited with status 1, "cal: Invalid month: zz" on standard
\* error and nothing on standard output.
C11_Witness ==
    /\ proc.pc = "exited"
    /\ args.month_arg = Some(<<122, 122>>)
    /\ proc.new = Some([ok |-> TRUE, err |-> <<>>])
    /\ proc.date # None /\ ~proc.date[1].ok
    /\ proc.stdout = <<>>
    /\ proc.stderr = Some(<<99, 97, 108, 58, 32, 73, 110, 118, 97, 108, 105, 100, 32, 109, 111, 110, 116, 104, 58, 32, 122, 122>>)
    /\ proc.status = Some(1)

(***************************************************************************)
(* The errors of CalContext::new.                                          *)
(***************************************************************************)
\* How many of -y, -Y and -n are given.
ModesGiven ==
    (IF args.year THEN 1 ELSE 0) + (IF args.twelve_months THEN 1 ELSE 0)
       + (IF args.months_count # None THEN 1 ELSE 0)

\* The text is a decimal numeral, and one of a positive integer.
IsNumeral(s) == s # <<>> /\ \A i \in DOMAIN s : IsDigit(s[i])

PositiveNumeral(s) == IsNumeral(s) /\ StripZeros(s) # <<48>>

\* The column value is absent or auto.
ColumnsAutomatic == args.columns = None \/ args.columns = Some(Messages.auto)

\* The statement as the specification has it: an error containing 'mutually
\* exclusive' whenever more than one of -y, -Y, -n is given; an error when
\* the column count is 0 or not a number; success with at most one mode and
\* a column value that is 'auto', absent or a positive integer.
C12_ContextErrorsAsStated ==
    proc.new # None =>
        /\ ModesGiven > 1 =>
              ~proc.new[1].ok /\ Contains(proc.new[1].err, Messages.mutually_exclusive)
        /\ (~ColumnsAutomatic /\ ~PositiveNumeral(args.columns[1])) => ~proc.new[1].ok
        /\ (ModesGiven <= 1 /\ (ColumnsAutomatic \/ PositiveNumeral(args.columns[1]))) =>
              proc.new[1].ok

\* The column value is valid: absent, auto, or a positive integer that fits
\* 32 unsigned bits.
ColumnsValid ==
    \/ ColumnsAutomatic
    \/ PositiveNumeral(args.columns[1]) /\ ValueAtMost(args.columns[1], U32_MAX_DIGITS)

\* The positional year is absent or a number in 1..9999.
YearArgValid ==
    \/ args.year_arg = None
    \/ /\ IsNumeral(args.year_arg[1])
       /\ Len(StripZeros(args.year_arg[1])) <= 4
       /\ StripZeros(args.year_arg[1]) # <<48>>

\* C12: CalContext::new returns an error that is not the 'mutually exclusive'
\* one when the column value is 0, not a number or above u32::MAX; with a
\* valid column value ('auto', absent, or a positive 32-bit integer) it
\* returns an error containing 'mutually exclusive' whenever more than one of
\* -y, -Y and -n is given; with a valid column value and at most one of those
\* modes it succeeds if and only if the positional year is absent or a number
\* in 1..9999.
C12_ContextErrors ==
    proc.new # None =>
        /\ ~ColumnsValid =>
              ~proc.new[1].ok /\ ~Contains(proc.new[1].err, Messages.mutually_exclusive)
        /\ (ColumnsValid /\ ModesGiven > 1) =>
              ~proc.new[1].ok /\ Contains(proc.new[1].err, Messages.mutually_exclusive)
        /\ (ColumnsValid /\ ModesGiven <= 1) => (proc.new[1].ok <=> YearArgValid)

\* cal -y -n 2 -c 2: the error is the 'mutually exclusive' one.
C12_Witness ==
    /\ proc.new # None
    /\ args.year /\ ~args.twelve_months /\ args.months_count = Some(2)
    /\ args.columns = Some(<<50>>)
    /\ proc.new[1] = [ok |-> FALSE, err |-> Messages.exclusive]

(***************************************************************************)
(* The Julian calendar by a day count.                                     *)
(***************************************************************************)
\* Days from 1 January of year 1 of the Julian calendar, a Saturday, to the
\* first of a month: 365 days a year and a leap day every fourth year.
JulianDayCount(y, m) ==
    365 * (y - 1) + ((y - 1) \div 4) + DAYS_BEFORE_MONTH[m]
        + (IF m > 2 /\ y % 4 = 0 THEN 1 ELSE 0)

JulianWeekday(y, m) ==
    <<"Sat", "Sun", "Mon", "Tue", "Wed", "Thu", "Fri">>[(JulianDayCount(y, m) % 7) + 1]

\* The month is one the context counts by the Julian calendar: every month of
\* the always-Julian context, the months before September 1752 under the
\* 1752 transition.
CountedJulian ==
    \/ AlwaysJulian
    \/ Transition1752 /\ (year < 1752 \/ (year = 1752 /\ month < 9))

\* C25: in the always-Julian context, and in the 1752 context for every month
\* before September 1752, first_day_of_month(year, month) is the weekday of
\* the 1st of that month in the Julian calendar by the day count.
C25_FirstDayJulian ==
    (call.op = "first_day_of_month" /\ CountedJulian) =>
        call.ret = JulianWeekday(year, month)

(***************************************************************************)
(* The numbering of the days of a year.                                    *)
(***************************************************************************)
\* The populated date before a date of the year, as [m, d]: the day before,
\* the last day of the month before, or the day before the reform gap.
DateBefore(m, d) ==
    IF d = 1 THEN [m |-> m - 1, d |-> days_in_month(ctx, year, m - 1)]
    ELSE IF is_reform_gap(ctx, year, m, d - 1) THEN [m |-> m, d |-> REFORM_FIRST_DAY - 1]
    ELSE [m |-> m, d |-> d - 1]

\* C26: in every context day_of_year numbers the dates that appear in the
\* month grids of a year consecutively: 1 for 1 January, and for every later
\* populated date the number of the populated date before it plus 1.
C26_DayOfYearConsecutive ==
    (call.op = "day_of_year" /\ ~is_reform_gap(ctx, year, month, call.day)) =>
        call.ret = IF month = 1 /\ call.day = 1 THEN 1
                   ELSE day_of_year(ctx, year, DateBefore(month, call.day).m,
                                    DateBefore(month, call.day).d) + 1

(***************************************************************************)
(* Week numbers of the month grid.                                         *)
(***************************************************************************)
\* C27: with week numbers on, MonthData::new completes without a panic in
\* every context, for every year and month: week_number can build the date of
\* every day the grid holds.
C27_WeekNumbersNeverPanic ==
    (call.op = "MonthData_new" /\ ctx.week_numbers) => ~call.ret.panicked

(***************************************************************************)
(* The range of the months that are built.                                 *)
(***************************************************************************)
\* The year and the month of a grid are in the validated range.
InRange(g) == g.month \in 1..12 /\ g.year \in 1..9999

\* C30: for every validated target (year in 1..9999, month in 1..12), every
\* month grid built by the single-month, three-months, twelve-months and
\* N-months modes, with or without span, has a month in 1..12 and a year in
\* 1..9999.
C30_BuiltMonthsInRange ==
    /\ call.op \in {"print_months_count", "print_twelve_months"} =>
          \A i \in 1..Len(call.ret) : InRange(call.ret[i])
    /\ call.op \in {"print_month_vertical", "print_three_months_vertical"} =>
          \A i \in 1..Len(call.months) : InRange(call.months[i])

(***************************************************************************)
(* The three locks of the holiday lookup.                                  *)
(***************************************************************************)
\* The lock the next statement of a thread at pc locks: the cache lock of the
\* cache checks and of the stores, the handle lock of init_plugin and of the
\* callers' plugin_guard, the country lock of init_plugin's store and of the
\* callers' country_guard. The plugin call locks none of the three.
Acquires(pc) ==
    CASE pc \in {"idle", "ghc_check", "store"} -> {"HOLIDAY_CACHE"}
      [] pc \in {"ip_lock", "lock_plugin"} -> {"PLUGIN"}
      [] pc \in {"ip_store", "lock_country"} -> {"COUNTRY"}
      [] OTHER -> {}

\* The order the code locks in: handle, country, cache.
LockRank == [PLUGIN |-> 1, COUNTRY |-> 2, HOLIDAY_CACHE |-> 3]

\* The order handle, cache, country.
StatedLockRank == [PLUGIN |-> 1, HOLIDAY_CACHE |-> 2, COUNTRY |-> 3]

\* Every thread that is about to lock holds only locks that come earlier in
\* the order rank.
LocksInOrder(rank) ==
    \A t \in Threads : \A l \in Acquires(th[t].pc) : \A h \in Held(t) :
        rank[h] < rank[l]

\* C21 (as stated): a thread that holds several of the three locks acquired
\* them in the order handle, cache, country: it never acquires the cache lock
\* while holding the country lock, and never the handle lock while holding the
\* cache or the country lock.
C21_OrderHandleCacheCountry == LocksInOrder(StatedLockRank)

\* C21 (amended): a thread that holds several of the three locks acquired them
\* in the order handle, country, cache: it never acquires the handle lock while
\* holding the country or the cache lock, and never the country lock while
\* holding the cache lock.
C21_OrderHandleCountryCache == LocksInOrder(LockRank)

\* A thread holds the handle and the country lock and is about to lock the
\* cache for its store.
C21_Witness ==
    \E t \in Threads :
        th[t].pc = "store" /\ Held(t) = {"PLUGIN", "COUNTRY"} /\ lock["HOLIDAY_CACHE"] = 0

\* Thread t is at the plugin call (get_holidays or get_year_holidays, which
\* make the network request) with a handle and a country to call it with.
AtPluginCall(t) == th[t].pc = "fetch" /\ PLUGIN # None /\ COUNTRY # None

\* C22: no lock is held across the network call: while a call of
\* get_holidays or get_year_holidays is in progress the calling thread holds
\* none of the three locks.
C22_NoLockAcrossFetch ==
    \A t \in Threads : AtPluginCall(t) => Held(t) = {}

\* Thread t runs try_load_plugin in this step: it is in init_plugin and finds
\* no handle stored.
RunsTryLoadPlugin(t) == th[t].pc = "ip_lock" /\ PLUGIN = None /\ Moves(t)

\* A thread has returned from a lookup whose init_plugin found no plugin to
\* load: try_load_plugin has run and failed.
LoadFailed(t) == th[t].pc = "done" /\ th[t].site = "no_plugin"

\* C23: the handle is resolved once per process: try_load_plugin runs at most
\* once, whether it succeeds or fails (after a run that failed, and after a
\* run that stored a handle, no step runs it again), and once the handle and
\* the country are stored they are never replaced or cleared.
C23_ResolvedOnce ==
    [][/\ \A t \in Threads : RunsTryLoadPlugin(t) =>
              /\ ~\E u \in Threads \ {t} : LoadFailed(u)
              /\ \A u \in Threads : th[u].pc # "ip_store"
       /\ PLUGIN # None => PLUGIN' = PLUGIN
       /\ COUNTRY # None => COUNTRY' = COUNTRY]_vars

\* Thread t is inside a call of format_day, preload_holidays or
\* preload_year_holidays that has not returned.
InCall(t) == th[t].pc \notin {"idle", "done"}

\* The next statement of the call thread t is in.
CallStep(t) ==
    \/ GhcCacheCheck(t)
    \/ InitPlugin(t)
    \/ InitPluginStore(t)
    \/ LockPlugin(t)
    \/ LockCountry(t)
    \/ GhcFetch(t)
    \/ GhcStore(t)
    \/ PyFetch(t)
    \/ PyStore(t)

\* How far a call has got: every statement moves it on towards its return.
PcRank ==
    [idle |-> 0, ghc_check |-> 1, ip_lock |-> 2, ip_store |-> 3, lock_plugin |-> 4,
     lock_country |-> 5, fetch |-> 6, store |-> 7, done |-> 8]

\* Thread t waits for the lock l, which thread u holds.
WaitsFor(t, u) == \E l \in Acquires(th[t].pc) : InCall(t) /\ lock[l] = u /\ u # t

\* C29: the three locks never deadlock: a thread inside a call can take its
\* next step or waits for a lock whose holder is inside a call and can take its
\* own (the plugin call returning being such a step); every step of a call
\* moves it on towards its return, so every call returns; and a call that has
\* returned holds none of the locks.
C29_NoDeadlock ==
    /\ [](\A t \in Threads :
            /\ InCall(t) =>
                  \/ ENABLED CallStep(t)
                  \/ \E u \in Threads : WaitsFor(t, u) /\ InCall(u) /\ ENABLED CallStep(u)
            /\ ~InCall(t) => Held(t) = {})
    /\ [][\A t \in Threads :
            (Moves(t) /\ InCall(t)) => PcRank[th'[t].pc] > PcRank[th[t].pc]]_vars

\* One thread is in the plugin call holding the handle and the country lock,
\* the other waits in init_plugin for the handle lock.
C29_Witness ==
    \E t \in Threads, u \in Threads :
        /\ WaitsFor(t, u)
        /\ th[t].pc = "ip_lock"
        /\ AtPluginCall(u)
        /\ ~ENABLED CallStep(t)

(***************************************************************************)
(* The holiday plugin (src/plugins/holiday_highlighter/src/lib.rs) behind  *)
(* the handle, and the holiday service it asks.                            *)
(***************************************************************************)
\* The character the service reports for a day: '8' public holiday,
\* '2' shortened day, '1' weekend, '0' working day.
ServiceCode(y, m, d) ==
    IF m = 1 /\ d = 1 THEN "8"
    ELSE IF d = 2 THEN "2"
    ELSE IF (y + m + d) % 7 \in {0, 6} THEN "1"
    ELSE "0"

\* The body of the service's answer for a month: one character per day.
ServiceMonth(y, m) == [d \in 1..GregorianDaysInMonth(y, m) |-> ServiceCode(y, m, d)]

\* The body of the service's answer for a year: one character per day.
ServiceYear(y) ==
    LET upto[m \in 0..12] == IF m = 0 THEN <<>> ELSE upto[m - 1] \o ServiceMonth(y, m)
    IN upto[12]

\* fetch_holidays: Some(body) of the response, None when the request fails.
fetch_holidays(y, m, country, up) == IF up THEN Some(ServiceMonth(y, m)) ELSE None

\* fetch_holidays_year
fetch_holidays_year(y, country, up) == IF up THEN Some(ServiceYear(y)) ELSE None

\* Option<String>::unwrap_or_default(): the empty string for None.
unwrap_or_default(o) == IF o = None THEN <<>> ELSE o[1]

\* plugin_get_holidays: the cached string of (year, month, country), else the
\* fetched one, or the empty string when the fetch failed, which is cached and
\* returned. ret is the pointer returned, never null.
plugin_get_holidays(cache, y, m, country, up) ==
    LET key == <<y, m, country>>
        data == unwrap_or_default(fetch_holidays(y, m, country, up))
    IN IF key \in DOMAIN cache
       THEN [ret |-> Some(cache[key]), cache |-> cache]
       ELSE [ret |-> Some(data),
             cache |-> [k \in DOMAIN cache \cup {key} |->
                           IF k = key THEN data ELSE cache[k]]]

\* plugin_get_year_holidays: fetched on every call, the empty string when the
\* fetch failed.
plugin_get_year_holidays(y, country, up) ==
    Some(unwrap_or_default(fetch_holidays_year(y, country, up)))

\* The program's thread.
MainThreads == {1}

\* get_holiday_code: plugin.get_holidays(year, month, country) answered by
\* the plugin.
PluginGhcFetch(t) ==
    /\ th[t].pc = "fetch"
    /\ th[t].op # "preload_year_holidays"
    /\ IF PLUGIN # None /\ COUNTRY # None
       THEN LET res == plugin_get_holidays(CACHE, th[t].year, th[t].month, COUNTRY[1],
                                           service # "down")
                data == PluginHandle_get_holidays(res.ret)
            IN /\ CACHE' = res.cache
               /\ IF data = None
                  THEN GhcReturns(t, "fetch_none", 0)
                  ELSE th' = [th EXCEPT ![t].pc = "store", ![t].data = data]
       ELSE /\ GhcReturns(t, "no_plugin", 0)
            /\ UNCHANGED CACHE
    /\ lock' = IF th'[t].pc = "done" THEN ReleaseAll(t) ELSE lock
    /\ UNCHANGED <<ctx, calVars, mainVars, service, PLUGIN, COUNTRY, HOLIDAY_CACHE>>

\* preload_year_holidays: plugin.get_year_holidays(year, country) answered by
\* the plugin.
PluginPyFetch(t) ==
    /\ th[t].pc = "fetch"
    /\ th[t].op = "preload_year_holidays"
    /\ IF PLUGIN # None /\ COUNTRY # None
       THEN LET raw == plugin_get_year_holidays(th[t].year, COUNTRY[1], service # "down")
                data == PluginHandle_get_year_holidays(raw)
            IN IF data = None
               THEN th' = [th EXCEPT ![t] = Returned(th[t], "fetch_none")]
               ELSE th' = [th EXCEPT ![t].pc = "store", ![t].data = data]
       ELSE th' = [th EXCEPT ![t] = Returned(th[t], "no_plugin")]
    /\ lock' = IF th'[t].pc = "done" THEN ReleaseAll(t) ELSE lock
    /\ UNCHANGED <<ctx, calVars, mainVars, plugVars, PLUGIN, COUNTRY, HOLIDAY_CACHE>>

\* print_month(ctx, year, month) after its preload_holidays(ctx, year, month)
\* has returned: format_day for a day of the month.
PrintMonthDay(t) ==
    /\ th[t].pc = "done"
    /\ th[t].op = "preload_holidays"
    /\ call = NoCall
    /\ \E d \in HolidayDays :
          LET r == [IdleThread EXCEPT !.op = "format_day", !.year = th[t].year,
                                      !.month = th[t].month, !.day = d]
          IN /\ call' = [op |-> "print_month", year |-> r.year, month |-> r.month,
                         day |-> d, ret |-> None]
             /\ IF ~ctx.color
                THEN \E td \in BOOLEAN, wd \in CellWeekdays :
                        th' = [th EXCEPT ![t] = Styled(r, "no_color", 0, td, wd)]
                ELSE IF ~ctx.holidays
                THEN \E td \in BOOLEAN, wd \in CellWeekdays :
                        th' = [th EXCEPT ![t] = Styled(r, "holidays_off", 0, td, wd)]
                ELSE th' = [th EXCEPT ![t] = [r EXCEPT !.pc = "ghc_check"]]
    /\ UNCHANGED <<ctx, year, month, mainVars, plugVars, PLUGIN, COUNTRY, HOLIDAY_CACHE, lock>>

\* print_month returns.
PrintMonthReturns(t) ==
    /\ th[t].pc = "done"
    /\ call.op = "print_month"
    /\ th' = [th EXCEPT ![t] = IdleThread]
    /\ call' = NoCall
    /\ UNCHANGED <<ctx, year, month, mainVars, plugVars, PLUGIN, COUNTRY, HOLIDAY_CACHE, lock>>

\* The service stops answering: from now on requests fail.
ServiceDown ==
    /\ service = "up"
    /\ service' = "down"
    /\ UNCHANGED <<ctx, calVars, mainVars, CACHE, PLUGIN, COUNTRY, HOLIDAY_CACHE, lock, th>>

\* The service answers again.
ServiceRestored ==
    /\ service = "down"
    /\ service' = "restored"
    /\ UNCHANGED <<ctx, calVars, mainVars, CACHE, PLUGIN, COUNTRY, HOLIDAY_CACHE, lock, th>>

PluginNext ==
    \/ \E t \in MainThreads :
          \/ FormatDay(t)
          \/ GhcCacheCheck(t)
          \/ PreloadHolidays(t)
          \/ PreloadYearHolidays(t)
          \/ InitPlugin(t)
          \/ InitPluginStore(t)
          \/ LockPlugin(t)
          \/ LockCountry(t)
          \/ PluginGhcFetch(t)
          \/ GhcStore(t)
          \/ PluginPyFetch(t)
          \/ PyStore(t)
          \/ call = NoCall /\ Finish(t)
          \/ PrintMonthDay(t)
          \/ PrintMonthReturns(t)
    \/ ServiceDown
    \/ ServiceRestored

SpecPlugin == HolidayInit /\ [][PluginNext]_vars

(***************************************************************************)
(* Properties of the lookups through the plugin.                           *)
(***************************************************************************)
\* The code the plugin reports for a day: the digit of the day's character.
PluginCode(y, m, d) == CodeAt(ServiceMonth(y, m), d - 1)[1]

\* print_month has got the code of call.day from get_holiday_code, with
\* highlighting on, the plugin loaded and no request failed so far.
LookedUpAfterPreload(t) ==
    /\ call.op = "print_month"
    /\ th[t].pc = "done"
    /\ ctx.holidays /\ ctx.color
    /\ PLUGIN # None
    /\ service = "up"

\* C24: with holiday highlighting on, the plugin loaded and every fetch
\* succeeding, after preload_holidays(ctx, Y, M) has returned,
\* get_holiday_code(ctx, Y, M, d) returns the code the plugin reports for day
\* d of month M, also when the cache held an entry of another month of Y.
C24_PreloadedMonthCodes ==
    \A t \in MainThreads :
        LookedUpAfterPreload(t) => th[t].ret = PluginCode(call.year, call.month, call.day)

\* No entry of the host cache and none of the plugin's cache has empty data.
NoEmptyEntry ==
    /\ HOLIDAY_CACHE # None => HOLIDAY_CACHE[1].data # <<>>
    /\ \A k \in DOMAIN CACHE : CACHE[k] # <<>>

\* Thread t is at its store with what a failed fetch gave it (the service
\* itself never answers with an empty body).
StoresFailedFetch(t) == th[t].pc = "store" /\ th[t].data = Some(<<>>) /\ Moves(t)

\* C28: a failed fetch for a month or a year leaves the host's cache entry
\* unchanged: it never replaces a cached entry and never installs an entry
\* with empty data, in the host cache or in the plugin's per-month cache.
C28_FailedFetchKeepsCache ==
    /\ []NoEmptyEntry
    /\ [][\A t \in MainThreads : StoresFailedFetch(t) => HOLIDAY_CACHE' = HOLIDAY_CACHE]_vars

====
